---- MODULE Spec2Model ----
(***************************************************************************)
(* A model of unipackage/datastore:                                        *)
(*   - DataStore.CreateOrupdateByUniqueIndexes over a storage engine       *)
(*     (src/src/datastore/index.ts, src/src/datastore/abstract/index.ts,   *)
(*     src/src/engine/mongo/datastore/MongooseDataStore.ts);               *)
(*   - DataStoreContainer (src/unnamed/part_004).                          *)
(* Spec runs the DataStore against the engine, SpecContainer runs the      *)
(* container.  The JavaScript value undefined is the string Undef; an      *)
(* entity field holding Undef is a key the object does not have.           *)
(***************************************************************************)
EXTENDS Integers, Sequences, FiniteSets, TLC

\* Number of CreateOrupdateByUniqueIndexes calls of one run.
MaxCalls == 3

\* The constraint-violation code the upsert looks for.
DuplicateKeyCode == 11000

Undef == "undefined"

\* The own keys of an entity, in key order.
Fields == <<"a", "b", "v">>

Entities == [a : {Undef, "x"}, b : {Undef, "y"}, v : {"p", "q"}]

(***************************************************************************)
(* Error values.  t is the JavaScript type of the value, code its own      *)
(* enumerable `code` property ({} when it has none), msg its text.         *)
(***************************************************************************)
Err(t, c, m) == [t |-> t, code |-> c, msg |-> m]

ErrUndefined == Err("undefined", {}, "")
ErrNull == Err("null", {}, "")
ErrString == Err("string", {}, "boom")
ErrObject == Err("object", {}, "engine down")
ErrOtherCode == Err("object", {DuplicateKeyCode + 1}, "other write error")
ErrDuplicateKey == Err("object", {DuplicateKeyCode}, "E11000 duplicate key")
SyntaxError == Err("SyntaxError", {}, "\"undefined\" is not valid JSON")
TypeError == Err("TypeError", {}, "Cannot read properties of null")
NotImplemented == Err("string", {}, "getUniqueIndexes is not implemented")
FailedToFetch == Err("string", {}, "Failed to fetch unique indexes")

\* No failure is injected into the engine call.
NoInj == Err("none", {}, "")

\* What an engine's create can fail with besides a genuine duplicate key.
CreateFailures == {ErrUndefined, ErrNull, ErrString, ErrObject, ErrOtherCode}
\* What an engine's getUniqueIndexes, find and update can fail with.
EngineFailures == {ErrUndefined, ErrObject}

\* JavaScript truthiness of an error value (`error || default`).
Truthy(e) == e.t \notin {"undefined", "null"}

(***************************************************************************)
(* Results: { ok, data?, error? }.                                         *)
(***************************************************************************)
Ok(d) == [ok |-> TRUE, hasData |-> TRUE, data |-> d, error |-> ErrUndefined]
Fail(e) == [ok |-> FALSE, hasData |-> FALSE, data |-> <<>>, error |-> e]
\* { ok: false, data: d } with no error (GetQueryConditionsByUniqueIndexes).
FailWithData(d) == [ok |-> FALSE, hasData |-> TRUE, data |-> d, error |-> ErrUndefined]

VARIABLES
    store,       \* the engine's collection, in insertion order
    uniqueKeys,  \* the key lists of the unique indexes the engine enforces
    caps,        \* what the engine's getUniqueIndexes does
    call,        \* the CreateOrupdateByUniqueIndexes call in progress
    calls,       \* calls started so far
    writes,      \* documents the engine has persisted so far
    prev,        \* summary of the call before the current one
    lastQuery,   \* the last buildQuery or find of the engine and its outcome
    link,        \* the connection of the store and its last connect/disconnect
    other,       \* a second call in flight, suspended at an await
    instances,   \* per container: the instance Map, in insertion order
    children,    \* per container: childContainers
    lifecycles,  \* per container: the keys registered with a lifecycle.onDestroy
    nops,        \* container operations so far
    last         \* the last container operation and its result

vars == <<store, uniqueKeys, caps, call, calls, writes, prev, lastQuery, link, other,
          instances, children, lifecycles, nops, last>>

dsVars == <<store, uniqueKeys, caps, call, calls, writes, prev, lastQuery, link, other>>
containerVars == <<instances, children, lifecycles, nops, last>>

(***************************************************************************)
(* The storage engine.                                                     *)
(***************************************************************************)

\* condition: the (key, value) pairs of one QueryCondition, in key order.
Cond(f, v) == <<[f |-> f, v |-> v]>>

\* buildQuery, conditions part: the first own key of each condition is written
\* onto the query, a later condition overwriting an earlier one.
RECURSIVE BuildConditions(_, _)

\* A conditions part that writes every own key of each condition.
RECURSIVE BuildConditionsEveryKey(_, _)
BuildConditionsEveryKey(query, conditions) ==
    IF conditions = <<>> THEN query
    ELSE LET condition == Head(conditions)
             keys == {condition[k].f : k \in 1..Len(condition)}
             q2 == [g \in (DOMAIN query) \cup keys |->
                        IF g \in keys
                        THEN (CHOOSE pair \in {condition[k] : k \in 1..Len(condition)} :
                                 pair.f = g).v
                        ELSE query[g]]
         IN BuildConditionsEveryKey(q2, Tail(conditions))

\* A conditions part that writes the first condition only.
BuildConditionsFirstOnly(query, conditions) ==
    IF conditions = <<>> THEN query
    ELSE [g \in (DOMAIN query) \cup {Head(conditions)[1].f} |->
             IF g = Head(conditions)[1].f THEN Head(conditions)[1].v ELSE query[g]]

BuildConditions(query, conditions) ==
    IF conditions = <<>> THEN query
    ELSE LET field == Head(conditions)[1].f
             value == Head(conditions)[1].v
             q2 == [g \in (DOMAIN query) \cup {field} |->
                        IF g = field THEN value ELSE query[g]]
         IN BuildConditions(q2, Tail(conditions))

\* buildQuery of a filter { conditions }.
BuildQuery(queryFilter) == BuildConditions(<<>>, queryFilter.conditions)

\* A document matches a native query when every field of the query is equal.
Matches(row, query) == \A f \in DOMAIN query : row[f] = query[f]

\* model.find(query).exec(): the matching documents in collection order.
ModelFind(s, query) == SelectSeq(s, LAMBDA r : Matches(r, query))

\* A unique index rejects a document equal to a stored one on all its keys
\* (a missing key is indexed as null).
Collides(s, d) ==
    \E i \in 1..Len(s) : \E k \in 1..Len(uniqueKeys) :
        \A j \in 1..Len(uniqueKeys[k]) : s[i][uniqueKeys[k][j]] = d[uniqueKeys[k][j]]

\* Some stored entity has data's value in a unique-index field.
MatchesOnUniqueField(s, d) ==
    \E i \in 1..Len(s) : \E k \in 1..Len(uniqueKeys) :
        \E j \in 1..Len(uniqueKeys[k]) : s[i][uniqueKeys[k][j]] = d[uniqueKeys[k][j]]

\* An engine create that does not enforce the unique indexes.
EngineCreateUnchecked(s, entity, inj) ==
    IF inj # NoInj THEN [res |-> Fail(inj), store |-> s]
    ELSE [res |-> Ok(<<entity>>), store |-> Append(s, entity)]

\* Engine create: [res, store].
EngineCreate(s, entity, inj) ==
    IF inj # NoInj THEN [res |-> Fail(inj), store |-> s]
    ELSE IF Collides(s, entity) THEN [res |-> Fail(ErrDuplicateKey), store |-> s]
    ELSE [res |-> Ok(<<entity>>), store |-> Append(s, entity)]

\* Engine find.
EngineFind(s, queryFilter, inj) ==
    IF inj # NoInj THEN Fail(inj)
    ELSE Ok(ModelFind(s, BuildQuery(queryFilter)))

\* Object.assign(entity, updateData): the keys updateData has are overwritten.
Assign(entity, updateData) ==
    [f \in DOMAIN entity |-> IF updateData[f] # Undef THEN updateData[f] ELSE entity[f]]

\* A save of d in place of the p-th document is rejected when another
\* document is equal to d on all the keys of a unique index.
CollidesElsewhere(s, p, d) ==
    \E i \in 1..Len(s) : \E k \in 1..Len(uniqueKeys) :
        /\ i # p
        /\ \A j \in 1..Len(uniqueKeys[k]) : s[i][uniqueKeys[k][j]] = d[uniqueKeys[k][j]]

\* The loop of update over the documents found, at the given positions of
\* the collection: each is assigned the patch and saved, and a save that is
\* rejected ends the call, the documents saved before it staying saved.
RECURSIVE SaveEach(_, _, _, _)
SaveEach(s, positions, updateData, updatedEntities) ==
    IF positions = <<>>
    THEN [res |-> Ok(updatedEntities), store |-> s, saved |-> Len(updatedEntities)]
    ELSE LET p == Head(positions)
             d == Assign(s[p], updateData)
         IN IF CollidesElsewhere(s, p, d)
            THEN [res |-> Fail(ErrDuplicateKey), store |-> s,
                  saved |-> Len(updatedEntities)]
            ELSE SaveEach([s EXCEPT ![p] = d], Tail(positions), updateData,
                          Append(updatedEntities, d))

\* An update that patches every document of the collection.
EngineUpdateEveryDocument(s, queryFilter, updateData, inj) ==
    IF inj # NoInj THEN [res |-> Fail(inj), store |-> s, saved |-> 0]
    ELSE SaveEach(s, [i \in 1..Len(s) |-> i], updateData, <<>>)

\* Engine update: every match is assigned the patch and saved, and the saved
\* documents are returned; [res, store, saved].
EngineUpdate(s, queryFilter, updateData, inj) ==
    IF inj # NoInj THEN [res |-> Fail(inj), store |-> s, saved |-> 0]
    ELSE LET query == BuildQuery(queryFilter)
             positions == SelectSeq([i \in 1..Len(s) |-> i],
                                    LAMBDA i : Matches(s[i], query))
         IN SaveEach(s, positions, updateData, <<>>)

RECURSIVE Flat(_)
Flat(ss) == IF ss = <<>> THEN <<>> ELSE Head(ss) \o Flat(Tail(ss))

\* Engine getUniqueIndexes: the keys of the unique indexes, flattened.
EngineGetUniqueIndexes(inj) ==
    IF inj # NoInj THEN Fail(inj)
    ELSE IF caps = "empty" THEN Ok(<<>>)
    ELSE Ok(Flat(uniqueKeys))

\* A getUniqueIndexes that answers with the list the call before was given.
GetUniqueIndexesCached(inj) ==
    IF prev.valid /\ prev.indexes # <<>> THEN Ok(prev.indexes)
    ELSE IF caps # "unsupported" THEN EngineGetUniqueIndexes(inj)
    ELSE Fail(NotImplemented)

\* AbstractDatastore.getUniqueIndexes.
GetUniqueIndexes(inj) ==
    IF caps # "unsupported" THEN EngineGetUniqueIndexes(inj)
    ELSE Fail(NotImplemented)

(***************************************************************************)
(* DataStore.                                                              *)
(***************************************************************************)

\* shouldUpdate that asks for an update of every found entity.
shouldUpdateAlways(existingData, newData) == TRUE

\* equal(existingData, newData): structural comparison of the whole entity.
\* shouldUpdate is its negation.
shouldUpdate(existingData, newData) == existingData # newData

\* The conditions { ...data }: every key data has.
RECURSIVE SpreadCondition(_, _)
SpreadCondition(data, keys) ==
    IF keys = <<>> THEN <<>>
    ELSE (IF data[Head(keys)] # Undef
            THEN <<[f |-> Head(keys), v |-> data[Head(keys)]]>> ELSE <<>>)
         \o SpreadCondition(data, Tail(keys))

\* The forEach of GetQueryConditionsByUniqueIndexes: one condition per listed
\* field whose value in data is not undefined.
\* IndexConditions that builds a condition for a field data does not have.
IndexConditionsKeepsAbsent(data, uniqueIndexes) ==
    [k \in 1..Len(uniqueIndexes) |-> <<[f |-> uniqueIndexes[k], v |-> data[uniqueIndexes[k]]]>>]

RECURSIVE IndexConditions(_, _)
IndexConditions(data, uniqueIndexes) ==
    IF uniqueIndexes = <<>> THEN <<>>
    ELSE (IF data[Head(uniqueIndexes)] # Undef
            THEN <<Cond(Head(uniqueIndexes), data[Head(uniqueIndexes)])>> ELSE <<>>)
         \o IndexConditions(data, Tail(uniqueIndexes))

GetQueryConditionsByUniqueIndexes(data, uniqueIndexes) ==
    IF Len(uniqueIndexes) = 0 THEN Ok(<<SpreadCondition(data, Fields)>>)
    ELSE LET queryConditions == IndexConditions(data, uniqueIndexes)
         IN IF Len(queryConditions) # 0 THEN Ok(queryConditions)
            ELSE FailWithData(queryConditions)

\* getQueryFilterByUniqueIndexes that drops the error getUniqueIndexes gave.
getQueryFilterDropsError(data, uniqueIndexesResult) ==
    IF \/ ~uniqueIndexesResult.ok
       \/ ~uniqueIndexesResult.hasData
       \/ Len(uniqueIndexesResult.data) = 0
    THEN Fail(FailedToFetch)
    ELSE LET queryConditionsResult ==
                 GetQueryConditionsByUniqueIndexes(data, uniqueIndexesResult.data)
         IN IF ~queryConditionsResult.ok \/ ~queryConditionsResult.hasData
            THEN Fail(queryConditionsResult.error)
            ELSE Ok(queryConditionsResult.data)

\* getQueryFilterByUniqueIndexes, after getUniqueIndexes returned
\* uniqueIndexesResult; data of the result is the filter's conditions.
getQueryFilterByUniqueIndexes(data, uniqueIndexesResult) ==
    IF \/ ~uniqueIndexesResult.ok
       \/ ~uniqueIndexesResult.hasData
       \/ Len(uniqueIndexesResult.data) = 0
    THEN Fail(IF Truthy(uniqueIndexesResult.error)
                THEN uniqueIndexesResult.error ELSE FailedToFetch)
    ELSE LET queryConditionsResult ==
                 GetQueryConditionsByUniqueIndexes(data, uniqueIndexesResult.data)
         IN IF ~queryConditionsResult.ok \/ ~queryConditionsResult.hasData
            THEN Fail(queryConditionsResult.error)
            ELSE Ok(queryConditionsResult.data)

\* JSON.parse(JSON.stringify(error)).code: what it throws, or the code it reads.
\* JSON.stringify(undefined) is undefined, which JSON.parse rejects; null has
\* no properties to read.
JsonCode(error) ==
    IF error.t = "undefined" THEN [thrown |-> SyntaxError, code |-> {}]
    ELSE IF error.t = "null" THEN [thrown |-> TypeError, code |-> {}]
    ELSE IF error.t = "string" THEN [thrown |-> NoInj, code |-> {}]
    ELSE [thrown |-> NoInj, code |-> error.code]

\* One engine call of the current call: its result, and whether the engine
\* failed on its own account (an injected failure).
LogEntry(op, r, inj) == [op |-> op, ok |-> r.ok, error |-> r.error, injected |-> inj # NoInj]

IdleCall ==
    [pc |-> "idle", data |-> CHOOSE e \in Entities : TRUE,
     conditions |-> <<>>, found |-> <<>>, i |-> 1, acc |-> <<>>,
     res |-> Fail(ErrUndefined), log |-> <<>>, w0 |-> 0, fresh |-> FALSE,
     updates |-> <<>>, indexes |-> <<>>, listed |-> <<>>]

Return(c, r) == [c EXCEPT !.pc = "done", !.res = r]

\* The for loop over existingDataArray from position i, up to the next await
\* (an entity that needs an update) or the loop's end.
RECURSIVE LoopFrom(_, _)
LoopFrom(c, i) ==
    IF i > Len(c.found)
    THEN Return([c EXCEPT !.i = i], Ok(c.acc))
    ELSE IF shouldUpdate(c.found[i], c.data)
    THEN [c EXCEPT !.pc = "update", !.i = i]
    ELSE LoopFrom([c EXCEPT !.acc = Append(c.acc, c.found[i])], i + 1)

\* AfterCreate that reconciles after a successful create as well.
AfterCreateAlwaysReconciles(c, createResult) ==
    IF createResult.ok \/ JsonCode(createResult.error).code = {DuplicateKeyCode}
    THEN [c EXCEPT !.pc = "uniqueIndexes"]
    ELSE Return(c, Fail(createResult.error))

\* CreateOrupdateByUniqueIndexes after `await this.create(data)`.
AfterCreate(c, createResult) ==
    IF createResult.ok /\ createResult.hasData
    THEN Return(c, Ok(createResult.data))
    ELSE LET j == JsonCode(createResult.error)
         IN IF j.thrown # NoInj THEN Return(c, Fail(j.thrown))
            ELSE IF j.code = {DuplicateKeyCode} THEN [c EXCEPT !.pc = "uniqueIndexes"]
            ELSE Return(c, Fail(createResult.error))

\* AfterQueryFilter that goes on to find with whatever it was given.
AfterQueryFilterGoesOn(c, queryFilterResult) ==
    [c EXCEPT !.pc = "find",
              !.conditions = IF queryFilterResult.hasData THEN queryFilterResult.data
                             ELSE <<>>]

\* ... after `await this.getQueryFilterByUniqueIndexes(data)`.
AfterQueryFilter(c, queryFilterResult) ==
    IF ~queryFilterResult.ok \/ ~queryFilterResult.hasData
    THEN Return(c, Fail(queryFilterResult.error))
    ELSE [c EXCEPT !.pc = "find", !.conditions = queryFilterResult.data]

\* ... after `await this.find(queryFilter)`.
AfterFind(c, existingDataArrayResult) ==
    IF ~existingDataArrayResult.ok \/ ~existingDataArrayResult.hasData
    THEN Return(c, Fail(existingDataArrayResult.error))
    ELSE LoopFrom([c EXCEPT !.found = existingDataArrayResult.data, !.acc = <<>>], 1)

\* AfterUpdate that skips a failed update and goes on with the loop.
AfterUpdateSkipsFailure(c, updateResult) ==
    IF updateResult.ok /\ updateResult.hasData
    THEN LoopFrom([c EXCEPT !.acc = c.acc \o updateResult.data], c.i + 1)
    ELSE LoopFrom(c, c.i + 1)

\* AfterUpdate that keeps the first entity an update returned.
AfterUpdateKeepsFirst(c, updateResult) ==
    IF updateResult.ok /\ updateResult.hasData
    THEN LoopFrom([c EXCEPT !.acc = c.acc \o SubSeq(updateResult.data, 1, 1)], c.i + 1)
    ELSE Return(c, Fail(updateResult.error))

\* ... after `await this.update(queryFilter, data)` in the loop.
AfterUpdate(c, updateResult) ==
    IF updateResult.ok /\ updateResult.hasData
    THEN LoopFrom([c EXCEPT !.acc = c.acc \o updateResult.data], c.i + 1)
    ELSE Return(c, Fail(updateResult.error))

\* A call: CreateOrupdateByUniqueIndexes(data) up to the return of create.
CallCreate(data, inj) ==
    /\ call.pc \in {"idle", "done"}
    /\ calls < MaxCalls
    /\ LET e == EngineCreate(store, data, inj)
           c0 == [IdleCall EXCEPT !.data = data, !.w0 = writes,
                                  !.fresh = ~MatchesOnUniqueField(store, data),
                                  !.log = <<LogEntry("create", e.res, inj)>>]
       IN /\ call' = AfterCreate(c0, e.res)
          /\ store' = e.store
          /\ writes' = writes + Len(e.store) - Len(store)
    /\ calls' = calls + 1
    /\ prev' = [valid |-> call.pc = "done", data |-> call.data,
                fresh |-> call.fresh,
                clean |-> \A k \in 1..Len(call.log) : ~call.log[k].injected,
                ok |-> call.res.ok, ncalls |-> Len(call.log),
                written |-> writes - call.w0,
                indexes |-> call.indexes, conditions |-> call.conditions]
    /\ UNCHANGED <<uniqueKeys, caps, lastQuery, link, other, containerVars>>

StepUniqueIndexes(inj) ==
    /\ call.pc = "uniqueIndexes"
    /\ caps = "unsupported" => inj = NoInj
    /\ LET r == GetUniqueIndexes(inj)
           c1 == [call EXCEPT !.log = Append(call.log, LogEntry("getUniqueIndexes", r, inj)),
                              !.indexes = r.data,
                              !.listed = IF caps = "listed" THEN Flat(uniqueKeys) ELSE <<>>]
       IN call' = AfterQueryFilter(c1, getQueryFilterByUniqueIndexes(call.data, r))
    /\ UNCHANGED <<store, uniqueKeys, caps, calls, writes, prev, lastQuery, link, other, containerVars>>

StepFind(inj) ==
    /\ call.pc = "find"
    /\ LET r == EngineFind(store, [conditions |-> call.conditions], inj)
           c1 == [call EXCEPT !.log = Append(call.log, LogEntry("find", r, inj))]
       IN call' = AfterFind(c1, r)
    /\ UNCHANGED <<store, uniqueKeys, caps, calls, writes, prev, lastQuery, link, other, containerVars>>

StepUpdate(inj) ==
    /\ call.pc = "update"
    /\ LET u == EngineUpdate(store, [conditions |-> call.conditions], call.data, inj)
           c1 == [call EXCEPT !.log = Append(call.log, LogEntry("update", u.res, inj)),
                              !.updates = Append(call.updates,
                                  [queryFilter |-> [conditions |-> call.conditions],
                                   updateData |-> call.data,
                                   res |-> u.res, saved |-> u.saved])]
       IN /\ call' = AfterUpdate(c1, u.res)
          /\ store' = u.store
          /\ writes' = writes + u.saved
    /\ UNCHANGED <<uniqueKeys, caps, calls, prev, lastQuery, link, other, containerVars>>

\* No two documents of s are equal on all the fields of one of the indexes.
Enforceable(s, keys) ==
    \A i, j \in 1..Len(s) : \A k \in 1..Len(keys) :
        i # j => \E n \in 1..Len(keys[k]) : s[i][keys[k][n]] # s[j][keys[k][n]]

\* Between two calls the unique indexes of the collection are replaced by
\* others the stored documents satisfy.
ChangeIndexes(keys) ==
    /\ call.pc \in {"idle", "done"}
    /\ caps = "listed"
    /\ keys # uniqueKeys
    /\ Enforceable(store, keys)
    /\ uniqueKeys' = keys
    /\ UNCHANGED <<store, caps, call, calls, writes, prev, lastQuery, link, other, containerVars>>

\* Two calls in flight on one event loop. StartCall is the synchronous part
\* of CreateOrupdateByUniqueIndexes, up to `await this.create(data)`: the
\* create is issued and the call is suspended.
StartCall(data) ==
    /\ call.pc = "idle"
    /\ call' = [IdleCall EXCEPT !.pc = "create", !.data = data, !.w0 = writes]
    /\ calls' = calls + 1
    /\ UNCHANGED <<store, uniqueKeys, caps, writes, prev, lastQuery, link, other,
                   containerVars>>

\* The engine executes the pending create of the running call, atomically,
\* and the call goes on to its next await.
StepCreate ==
    /\ call.pc = "create"
    /\ LET e == EngineCreate(store, call.data, NoInj)
           c0 == [call EXCEPT !.fresh = ~MatchesOnUniqueField(store, call.data),
                              !.log = <<LogEntry("create", e.res, NoInj)>>]
       IN /\ call' = AfterCreate(c0, e.res)
          /\ store' = e.store
          /\ writes' = writes + Len(e.store) - Len(store)
    /\ UNCHANGED <<uniqueKeys, caps, calls, prev, lastQuery, link, other, containerVars>>

\* At an await the event loop may resume the other call.
Switch ==
    /\ call # other
    /\ call' = other
    /\ other' = call
    /\ UNCHANGED <<store, uniqueKeys, caps, calls, writes, prev, lastQuery, link,
                   containerVars>>

\* The engines: one unique index on a, one on a and one on b, a compound one
\* on (a, b); getUniqueIndexes lists them, lists nothing, or is not there.
EngineConfigs ==
    {[keys |-> <<<<"a">>>>, caps |-> "listed"],
     [keys |-> <<<<"a">>, <<"b">>>>, caps |-> "listed"],
     [keys |-> <<<<"a", "b">>>>, caps |-> "listed"],
     [keys |-> <<<<"a">>>>, caps |-> "empty"],
     [keys |-> <<<<"a">>>>, caps |-> "unsupported"]}

NoPrev == [valid |-> FALSE, data |-> CHOOSE e \in Entities : TRUE,
           fresh |-> FALSE, clean |-> TRUE, ok |-> FALSE, ncalls |-> 0,
           written |-> 0, indexes |-> <<>>, conditions |-> <<>>]

(***************************************************************************)
(* MongooseDataStore: buildQuery and find.                                 *)
(***************************************************************************)

\* buildQuery and find calls of one run.
MaxQueries == 2

\* Values of a native filter, all of one shape: a plain value (base), the
\* list of a $or (alts), and either of them under ne nested { $ne: ... }.
V(base) == [ne |-> 0, base |-> base, alts |-> <<>>]
OrValue(queries) == [ne |-> 0, base |-> "", alts |-> queries]
Ne(value) == [value EXCEPT !.ne = @ + 1]

\* Object.assign(query, result).
AssignQuery(query, result) ==
    [g \in (DOMAIN query) \cup (DOMAIN result) |->
        IF g \in DOMAIN result THEN result[g] ELSE query[g]]

\* A not that leaves a field the accumulator holds as it is.
ApplyNotKeepsHeld(query, notResult) ==
    [g \in (DOMAIN query) \cup (DOMAIN notResult) |->
        IF g \in DOMAIN query THEN query[g] ELSE Ne(notResult[g])]

\* buildQuery, not part: every own field of the compiled not filter is
\* written onto the query under $ne.
ApplyNot(query, notResult) ==
    [g \in (DOMAIN query) \cup (DOMAIN notResult) |->
        IF g \in DOMAIN notResult THEN Ne(notResult[g]) ELSE query[g]]

\* buildQuery of a filter { conditions, and, or, not } (an absent part is an
\* empty list; not is a list of at most one filter).
RECURSIVE buildQuery(_), buildAnd(_, _)

\* A buildQuery that also assigns the fields of every or branch to the query.
RECURSIVE AssignAll(_, _)
AssignAll(query, results) ==
    IF results = <<>> THEN query
    ELSE AssignAll(AssignQuery(query, Head(results)), Tail(results))
buildQueryOrLeaks(queryFilter) ==
    LET afterConditions == BuildConditions(<<>>, queryFilter.conditions)
        afterAnd == buildAnd(afterConditions, queryFilter.and)
        orConditions == [i \in 1..Len(queryFilter.or) |-> buildQuery(queryFilter.or[i])]
        afterOr == IF Len(orConditions) > 0
                   THEN AssignQuery(AssignAll(afterAnd, orConditions),
                                    [g \in {"$or"} |-> OrValue(orConditions)])
                   ELSE afterAnd
    IN IF queryFilter.not = <<>> THEN afterOr
       ELSE ApplyNot(afterOr, buildQuery(queryFilter.not[1]))

buildQuery(queryFilter) ==
    LET afterConditions == BuildConditions(<<>>, queryFilter.conditions)
        afterAnd == buildAnd(afterConditions, queryFilter.and)
        orConditions == [i \in 1..Len(queryFilter.or) |-> buildQuery(queryFilter.or[i])]
        afterOr == IF Len(orConditions) > 0
                   THEN AssignQuery(afterAnd, [g \in {"$or"} |-> OrValue(orConditions)])
                   ELSE afterAnd
    IN IF queryFilter.not = <<>> THEN afterOr
       ELSE ApplyNot(afterOr, buildQuery(queryFilter.not[1]))

\* An and part in which a field keeps the value it was given first.
RECURSIVE buildAndFirstWins(_, _)
buildAndFirstWins(query, filters) ==
    IF filters = <<>> THEN query
    ELSE buildAndFirstWins(AssignQuery(buildQuery(Head(filters)), query), Tail(filters))

\* buildQuery, and part: the compiled filters are assigned in list order.
buildAnd(query, filters) ==
    IF filters = <<>> THEN query
    ELSE buildAnd(AssignQuery(query, buildQuery(Head(filters))), Tail(filters))

\* An optional number: absent, or given.
Absent == <<>>
Given(n) == <<n>>
\* JavaScript truthiness of an optional number.
TruthyNumber(o) == o # Absent /\ o[1] # 0

\* The query builder of model.find(query): the options set on it.
QueryBuilder(query) ==
    [query |-> query, skip |-> Absent, limit |-> Absent, sort |-> <<>>, select |-> <<>>]

\* A find that paginates as soon as page is given.
PaginateOnPageAlone(queryBuilder, page, limit) ==
    IF page # Absent
    THEN [queryBuilder EXCEPT !.skip = Given((page[1] - 1) * (IF limit = Absent THEN 0 ELSE limit[1])),
                              !.limit = IF limit = Absent THEN Given(0) ELSE limit]
    ELSE queryBuilder

\* if (page && limit) queryBuilder.skip((page - 1) * limit).limit(limit)
Paginate(queryBuilder, page, limit) ==
    IF TruthyNumber(page) /\ TruthyNumber(limit)
    THEN [queryBuilder EXCEPT !.skip = Given((page[1] - 1) * limit[1]),
                              !.limit = Given(limit[1])]
    ELSE queryBuilder

\* applySortOptions: the criteria, one per field, a later option for a field
\* overwriting the order of an earlier one; order is desc only when it says so.
RECURSIVE SortCriteria(_, _)
SortCriteria(criteria, sortOptions) ==
    IF sortOptions = <<>> THEN criteria
    ELSE LET field == Head(sortOptions).field
             order == IF Head(sortOptions).order = "desc" THEN "desc" ELSE "asc"
             held == \E i \in 1..Len(criteria) : criteria[i].field = field
         IN SortCriteria(
                IF held
                THEN [i \in 1..Len(criteria) |->
                         IF criteria[i].field = field
                         THEN [field |-> field, order |-> order] ELSE criteria[i]]
                ELSE Append(criteria, [field |-> field, order |-> order]),
                Tail(sortOptions))

applySortOptions(queryBuilder, sortOptions) ==
    IF sortOptions = <<>> THEN queryBuilder
    ELSE [queryBuilder EXCEPT !.sort = SortCriteria(<<>>, sortOptions)]

\* applyFieldsOptions: the projection has the own keys of the fields options,
\* each with 1 (fieldsOptions is the list of its own keys, each with the
\* field names listed under it; absent is the empty list).
applyFieldsOptions(queryBuilder, fieldsOptions) ==
    IF fieldsOptions = <<>> THEN queryBuilder
    ELSE [queryBuilder EXCEPT
             !.select = [k \in 1..Len(fieldsOptions) |-> fieldsOptions[k].key]]

\* A document under a projection that has 1 for each of the names: the fields
\* of the document among the names.
Project(doc, names) ==
    [f \in (DOMAIN doc) \cap {names[k] : k \in 1..Len(names)} |-> doc[f]]

\* The order a sort criteria list puts two documents in: the first criterion
\* on which they differ decides, ascending or descending.
RECURSIVE Precedes(_, _, _)
Precedes(r1, r2, criteria) ==
    IF criteria = <<>> THEN FALSE
    ELSE LET field == Head(criteria).field
         IN IF r1[field] = r2[field] THEN Precedes(r1, r2, Tail(criteria))
            ELSE IF Head(criteria).order = "desc" THEN r1[field] > r2[field]
            ELSE r1[field] < r2[field]

RECURSIVE Insert(_, _, _)
Insert(sorted, doc, criteria) ==
    IF sorted = <<>> THEN <<doc>>
    ELSE IF Precedes(doc, Head(sorted), criteria) THEN <<doc>> \o sorted
    ELSE <<Head(sorted)>> \o Insert(Tail(sorted), doc, criteria)

\* The documents in the order of the criteria (no criteria: as they are).
RECURSIVE SortBy(_, _, _)
SortBy(sorted, docs, criteria) ==
    IF docs = <<>> THEN sorted
    ELSE SortBy(Insert(sorted, Head(docs), criteria), Tail(docs), criteria)

Drop(seq, n) == SubSeq(seq, n + 1, Len(seq))
Take(seq, n) == SubSeq(seq, 1, IF n < Len(seq) THEN n ELSE Len(seq))

\* An exec that cuts the page out of the matches before it sorts them.
execPaginatesFirst(queryBuilder, s) ==
    LET matched == ModelFind(s, queryBuilder.query)
        skipped == IF queryBuilder.skip = Absent THEN matched
                   ELSE Drop(matched, queryBuilder.skip[1])
        cut == IF queryBuilder.limit = Absent \/ queryBuilder.limit[1] = 0 THEN skipped
               ELSE Take(skipped, queryBuilder.limit[1])
    IN SortBy(<<>>, cut, queryBuilder.sort)

\* queryBuilder.exec() on the collection s.  sort, skip, limit and the
\* projection are options of the one query the builder sends, in
\* whatever order they were set on it: the matching documents are put in the
\* order of the sort criteria (collection order without), the first skip of
\* them are left out, the rest is cut to limit (a limit of 0 is no limit) and
\* each document is returned under the projection, if there is one.
exec(queryBuilder, s) ==
    LET matched == SortBy(<<>>, ModelFind(s, queryBuilder.query), queryBuilder.sort)
        skipped == IF queryBuilder.skip = Absent THEN matched
                   ELSE Drop(matched, queryBuilder.skip[1])
        cut == IF queryBuilder.limit = Absent \/ queryBuilder.limit[1] = 0 THEN skipped
               ELSE Take(skipped, queryBuilder.limit[1])
    IN IF queryBuilder.select = <<>> THEN cut
       ELSE [i \in 1..Len(cut) |-> Project(cut[i], queryBuilder.select)]

\* find(queryFilter): [builder, res].
find(s, queryFilter, inj) ==
    LET queryBuilder ==
            applyFieldsOptions(
                applySortOptions(
                    Paginate(QueryBuilder(buildQuery(queryFilter)),
                             queryFilter.page, queryFilter.limit),
                    queryFilter.sort),
                queryFilter.fields)
    IN [builder |-> queryBuilder,
        res |-> IF inj # NoInj THEN Fail(inj) ELSE Ok(exec(queryBuilder, s))]

\* A filter of conditions alone, and the filters the engine is exercised with.
Leaf(conditions) ==
    [conditions |-> conditions, and |-> <<>>, or |-> <<>>, not |-> <<>>,
     page |-> Absent, limit |-> Absent, sort |-> <<>>, fields |-> <<>>]

NoQuery == [op |-> "none", n |-> 0, filter |-> Leaf(<<>>), native |-> <<>>,
            twice |-> FALSE, prior |-> <<>>,
            builder |-> QueryBuilder(<<>>), res |-> Ok(<<>>),
            updateData |-> CHOOSE e \in Entities : TRUE, before |-> <<>>]

\* The filters buildQuery is exercised with: condition lists naming a field
\* once or twice, with conditions of one own key and of two, and and, or and not parts of depth one and two, each with
\* and without the options find reads.
TwoKeys(f, v, g, w) == <<[f |-> f, v |-> v], [f |-> g, v |-> w]>>
ConditionLists ==
    { <<>>,
      <<Cond("a", V("1"))>>,
      <<Cond("a", V("1")), Cond("b", V("2"))>>,
      <<Cond("b", V("2")), Cond("a", V("1"))>>,
      <<Cond("a", V("1")), Cond("a", V("2"))>>,
      <<Cond("a", V("1")), Cond("b", V("2")), Cond("a", V("2"))>>,
      <<TwoKeys("a", V("1"), "b", V("2"))>>,
      <<Cond("a", V("1")), TwoKeys("a", V("2"), "b", V("2"))>> }
OrOfTwo == <<Leaf(<<Cond("a", V("1"))>>), Leaf(<<Cond("b", V("2"))>>)>>
AndLists ==
    { <<>>,
      <<Leaf(<<Cond("a", V("2"))>>)>>,
      <<Leaf(<<Cond("b", V("1"))>>),
        [Leaf(<<>>) EXCEPT !.not = <<Leaf(<<Cond("b", V("2"))>>)>>]>>,
      <<[Leaf(<<Cond("a", V("2"))>>) EXCEPT !.or = OrOfTwo],
        [Leaf(<<>>) EXCEPT !.or = <<Leaf(<<Cond("b", V("1"))>>)>>]>> }
OrLists == { <<>>, OrOfTwo }
NotLists ==
    { <<>>,
      <<Leaf(<<Cond("a", V("1"))>>)>>,
      <<Leaf(<<Cond("b", V("1"))>>)>>,
      <<[Leaf(<<Cond("a", V("2"))>>) EXCEPT !.or = OrOfTwo]>> }
FindOptions ==
    { [page |-> Absent, limit |-> Absent, sort |-> <<>>, fields |-> <<>>],
      [page |-> Given(2), limit |-> Given(3),
       sort |-> <<[field |-> "a", order |-> "desc"]>>,
       fields |-> <<[key |-> "include", names |-> <<"a">>]>>] }
CompileFilters ==
    { [conditions |-> cs, and |-> an, or |-> o, not |-> nt,
       page |-> opt.page, limit |-> opt.limit, sort |-> opt.sort, fields |-> opt.fields] :
         cs \in ConditionLists, an \in AndLists, o \in OrLists, nt \in NotLists,
         opt \in FindOptions }

\* The filters find is exercised with: match all or one condition, page and
\* limit absent, 0 or positive, no sort and no fields.
PageNumbers == {Absent, Given(0), Given(1), Given(2), Given(3)}
FindFilters ==
    { [Leaf(cs) EXCEPT !.page = page, !.limit = limit] :
         cs \in {<<>>, <<Cond("a", V("1"))>>}, page \in PageNumbers, limit \in PageNumbers }

\* The filters a sorted find is exercised with: match all or one condition,
\* pages before, within and past the matches, no sort or a sort on rank
\* (ascending by default, descending, or named twice).
Pages ==
    { [page |-> Absent, limit |-> Absent], [page |-> Given(2), limit |-> Absent],
      [page |-> Given(0), limit |-> Given(10)], [page |-> Given(1), limit |-> Given(10)],
      [page |-> Given(2), limit |-> Given(10)], [page |-> Given(3), limit |-> Given(10)],
      [page |-> Given(4), limit |-> Given(10)], [page |-> Given(2), limit |-> Given(3)] }
SortLists ==
    { <<>>,
      <<[field |-> "rank", order |-> "none"]>>,
      <<[field |-> "rank", order |-> "desc"]>>,
      <<[field |-> "rank", order |-> "desc"], [field |-> "rank", order |-> "asc"]>> }
\* The fields options: include, exclude, or both.
FieldsLists ==
    { <<[key |-> "include", names |-> <<"a">>]>>,
      <<[key |-> "exclude", names |-> <<"a">>]>>,
      <<[key |-> "include", names |-> <<"id", "rank">>],
        [key |-> "exclude", names |-> <<"a">>]>> }
SortedFilters ==
    { [Leaf(cs) EXCEPT !.page = pg.page, !.limit = pg.limit, !.sort = sort] :
         cs \in {<<>>, <<Cond("a", V("1"))>>}, pg \in Pages, sort \in SortLists }
    \cup { [Leaf(<<>>) EXCEPT !.fields = fields] : fields \in FieldsLists }

\* A collection of five documents, four of them with a = 1; no two documents
\* have the same rank, and the collection is not in the order of the ranks.
Sample ==
    << [id |-> V("d1"), a |-> V("1"), rank |-> 2],
       [id |-> V("d2"), a |-> V("1"), rank |-> 5],
       [id |-> V("d3"), a |-> V("2"), rank |-> 1],
       [id |-> V("d4"), a |-> V("1"), rank |-> 4],
       [id |-> V("d5"), a |-> V("1"), rank |-> 3] >>

\* A collection of 26 documents, 25 of them with a = 1, with ranks 1 to 26
\* in an order that is neither ascending nor descending.
Catalogue ==
    [i \in 1..26 |->
        [id |-> V(ToString(i)), a |-> V(IF i = 11 THEN "2" ELSE "1"),
         rank |-> ((i * 7) % 26) + 1]]

\* A buildQuery of the engine on its own.
Compile(queryFilter) ==
    /\ lastQuery.n < MaxQueries
    /\ LET twice == lastQuery.op = "compile" /\ lastQuery.filter = queryFilter
       IN lastQuery' = [NoQuery EXCEPT !.op = "compile", !.n = lastQuery.n + 1,
                           !.filter = queryFilter, !.native = buildQuery(queryFilter),
                           !.twice = twice,
                           !.prior = IF twice THEN lastQuery.native ELSE <<>>]
    /\ UNCHANGED <<store, uniqueKeys, caps, call, calls, writes, prev, link, other, containerVars>>

Find(queryFilter, inj) ==
    /\ lastQuery.n < MaxQueries
    /\ LET r == find(store, queryFilter, inj)
       IN lastQuery' = [NoQuery EXCEPT !.op = "find", !.n = lastQuery.n + 1,
                           !.filter = queryFilter, !.native = r.builder.query,
                           !.builder = r.builder, !.res = r.res]
    /\ UNCHANGED <<store, uniqueKeys, caps, call, calls, writes, prev, link, other, containerVars>>

\* An update of the engine on its own: the filter is a conditions list.
Update(conditions, updateData, inj) ==
    /\ lastQuery.n < MaxQueries
    /\ LET u == EngineUpdate(store, [conditions |-> conditions], updateData, inj)
       IN /\ store' = u.store
          /\ writes' = writes + u.saved
          /\ lastQuery' = [NoQuery EXCEPT !.op = "update", !.n = lastQuery.n + 1,
                              !.filter = Leaf(conditions),
                              !.native = BuildQuery([conditions |-> conditions]),
                              !.res = u.res, !.updateData = updateData,
                              !.before = store]
    /\ UNCHANGED <<uniqueKeys, caps, call, calls, prev, link, other, containerVars>>

\* The collections and the filters update is exercised with: a unique index
\* on a, documents that differ in a, and conditions on no, one or two fields.
Shelf ==
    << [a |-> "x", b |-> "y", v |-> "p"], [a |-> "z", b |-> "y", v |-> "q"],
       [a |-> Undef, b |-> Undef, v |-> "p"] >>
UpdateConditions ==
    { <<>>, <<Cond("a", "x")>>, <<Cond("b", "y")>>, <<Cond("v", "p")>>,
      <<Cond("b", "y"), Cond("v", "q")>>, <<Cond("a", "none")>> }

(***************************************************************************)
(* Connections.  The store (MongooseDataStore) keeps the handle its        *)
(* Database gave it; the Database keeps the handle of the driver.  A       *)
(* handle is the number of the establishment that made it.                 *)
(***************************************************************************)

\* connect and disconnect calls of one run.
MaxLinkOps == 4

\* null, and the handle of the n-th establishment.
NoHandle == <<>>
Handle(n) == <<n>>

\* { ok: true }
OkVoid == [ok |-> TRUE, hasData |-> FALSE, data |-> <<>>, error |-> ErrUndefined]

\* What mongoose.connect, connection.close and model.createIndexes reject with.
ConnectError == Err("object", {}, "connect ECONNREFUSED")
CloseError == Err("object", {}, "close failed")
IndexError == Err("object", {}, "createIndexes failed")
\* A driver call resolves or rejects.
DriverOutcomes == {"resolves", "rejects"}

\* Database.connect: [conn, res, connects], connects the calls of
\* mongoose.connect made.
DatabaseConnect(conn, opened, driver) ==
    IF conn # NoHandle THEN [conn |-> conn, res |-> Ok(conn), connects |-> 0]
    ELSE IF driver = "rejects"
    THEN [conn |-> NoHandle, res |-> Fail(ConnectError), connects |-> 1]
    ELSE [conn |-> Handle(opened + 1), res |-> Ok(Handle(opened + 1)), connects |-> 1]

\* Database.disconnect: [conn, res, closes], closes the calls of
\* connection.close made.
DatabaseDisconnect(conn, driver) ==
    IF conn # NoHandle
    THEN IF driver = "rejects"
         THEN [conn |-> conn, res |-> Fail(CloseError), closes |-> 1]
         ELSE [conn |-> NoHandle, res |-> OkVoid, closes |-> 1]
    ELSE [conn |-> NoHandle, res |-> OkVoid, closes |-> 0]

\* The outcome of a call on the store: the handles the store and its Database
\* hold afterwards, the result returned or the exception thrown, and the
\* driver calls made.
Outcome(conn, dbConn, res, threw, connects, indexes, closes, failed) ==
    [conn |-> conn, dbConn |-> dbConn, res |-> res, threw |-> threw,
     connects |-> connects, indexes |-> indexes, closes |-> closes,
     failed |-> failed]

\* MongooseDataStore.connect.  No try surrounds the body: a rejection of
\* createIndexes leaves the call by exception, after this.conn was set.
connect(conn, dbConn, opened, driver, index) ==
    IF conn = NoHandle
    THEN LET connectionResult == DatabaseConnect(dbConn, opened, driver)
         IN IF connectionResult.res.ok
            THEN IF index = "rejects"
                 THEN Outcome(connectionResult.res.data, connectionResult.conn,
                              Fail(IndexError), TRUE,
                              connectionResult.connects, 1, 0, <<IndexError>>)
                 ELSE Outcome(connectionResult.res.data, connectionResult.conn,
                              Ok(connectionResult.res.data), FALSE,
                              connectionResult.connects, 1, 0, <<>>)
            ELSE Outcome(conn, connectionResult.conn,
                         Fail(connectionResult.res.error), FALSE,
                         connectionResult.connects, 0, 0, <<ConnectError>>)
    ELSE Outcome(conn, dbConn, Ok(conn), FALSE, 0, 0, 0, <<>>)

\* A disconnect that calls its Database whether the store holds a handle or not.
disconnectUnguarded(conn, dbConn, driver) ==
    LET r == DatabaseDisconnect(dbConn, driver)
    IN Outcome(NoHandle, r.conn, OkVoid, FALSE, 0, 0, r.closes,
               IF r.res.ok THEN <<>> ELSE <<r.res.error>>)

\* MongooseDataStore.disconnect.  The result of database.disconnect() is
\* awaited and dropped; Database.disconnect catches every rejection, so the
\* catch of this method is never entered.
disconnect(conn, dbConn, driver) ==
    IF conn # NoHandle
    THEN LET r == DatabaseDisconnect(dbConn, driver)
         IN Outcome(NoHandle, r.conn, OkVoid, FALSE, 0, 0, r.closes,
                    IF r.res.ok THEN <<>> ELSE <<r.res.error>>)
    ELSE Outcome(conn, dbConn, OkVoid, FALSE, 0, 0, 0, <<>>)

NoLink ==
    [conn |-> NoHandle, dbConn |-> NoHandle, opened |-> 0, n |-> 0,
     op |-> "none", pre |-> NoHandle,
     out |-> Outcome(NoHandle, NoHandle, OkVoid, FALSE, 0, 0, 0, <<>>),
     implemented |-> FALSE, engine |-> OkVoid]

\* AbstractDatastore.connect: return await this.ds.connect()
Connect(driver, index) ==
    /\ link.n < MaxLinkOps
    /\ LET out == connect(link.conn, link.dbConn, link.opened, driver, index)
       IN link' = [conn |-> out.conn, dbConn |-> out.dbConn,
                   opened |-> IF out.connects > 0 /\ out.dbConn # NoHandle
                              THEN link.opened + 1 ELSE link.opened,
                   n |-> link.n + 1, op |-> "connect", pre |-> link.conn,
                   out |-> out, implemented |-> TRUE, engine |-> OkVoid]
    /\ UNCHANGED <<store, uniqueKeys, caps, call, calls, writes, prev, lastQuery,
                   other, containerVars>>

\* AbstractDatastore.disconnect: return await this.ds.disconnect()
Disconnect(driver) ==
    /\ link.n < MaxLinkOps
    /\ LET out == disconnect(link.conn, link.dbConn, driver)
       IN link' = [conn |-> out.conn, dbConn |-> out.dbConn, opened |-> link.opened,
                   n |-> link.n + 1, op |-> "disconnect", pre |-> link.conn,
                   out |-> out, implemented |-> TRUE, engine |-> OkVoid]
    /\ UNCHANGED <<store, uniqueKeys, caps, call, calls, writes, prev, lastQuery,
                   other, containerVars>>

\* Engine getIndexes: the paths of the model's schema.
EngineGetIndexes(inj) == IF inj # NoInj THEN Fail(inj) ELSE Ok(Fields)

GetIndexesNotImplemented == Err("string", {}, "getIndexes is not implemented")

\* A getIndexes that answers a failing engine with a failure of its own.
GetIndexesRenamesFailure(implemented, inj) ==
    IF implemented /\ inj = NoInj THEN EngineGetIndexes(inj)
    ELSE Fail(GetIndexesNotImplemented)

\* AbstractDatastore.getIndexes, on an engine that has the method or not.
GetIndexes(implemented, inj) ==
    IF implemented THEN EngineGetIndexes(inj)
    ELSE Fail(GetIndexesNotImplemented)

\* A call of getIndexes on the store.
CallGetIndexes(implemented, inj) ==
    /\ link.n < MaxLinkOps
    /\ link' = [link EXCEPT !.n = @ + 1, !.op = "getIndexes", !.pre = link.conn,
                   !.out = Outcome(link.conn, link.dbConn, GetIndexes(implemented, inj),
                                   FALSE, 0, 0, 0, <<>>),
                   !.implemented = implemented,
                   !.engine = IF implemented THEN EngineGetIndexes(inj) ELSE OkVoid]
    /\ UNCHANGED <<store, uniqueKeys, caps, call, calls, writes, prev, lastQuery,
                   other, containerVars>>

\* A call of getUniqueIndexes on the store.
CallGetUniqueIndexes(inj) ==
    /\ link.n < MaxLinkOps
    /\ link' = [link EXCEPT !.n = @ + 1, !.op = "getUniqueIndexes", !.pre = link.conn,
                   !.out = Outcome(link.conn, link.dbConn, GetUniqueIndexes(inj),
                                   FALSE, 0, 0, 0, <<>>),
                   !.implemented = caps # "unsupported",
                   !.engine = IF caps # "unsupported"
                              THEN EngineGetUniqueIndexes(inj) ELSE OkVoid]
    /\ UNCHANGED <<store, uniqueKeys, caps, call, calls, writes, prev, lastQuery,
                   other, containerVars>>

(***************************************************************************)
(* DataStoreContainer.  Containers are numbered in creation order;         *)
(* container 1 is the one getInstance returns.                             *)
(***************************************************************************)

\* Container operations of one run.
MaxOps == 3
\* Containers of one run.
MaxContainers == 2

Keys == {"k1", "k2"}
\* The datastore objects handed to register.
DataStores == {"ds1", "ds2"}
\* A lifecycle hook of the options: not supplied, returning { ok: true },
\* returning { ok: false }.
Hooks == {"none", "ok", "fail"}

NoKey == "none"
CErr(kind, key) == [kind |-> kind, key |-> key]
NoError == CErr("none", NoKey)
AlreadyRegistered(key) == CErr("Singleton with key is already registered", key)
HookError(hook, key) == CErr("Error in " \o hook \o " lifecycle callback", key)
NotFound(key) == CErr("No instance found for key", key)

COk(d) == [ok |-> TRUE, data |-> d, error |-> NoError]
CFail(e) == [ok |-> FALSE, data |-> "none", error |-> e]

\* What the Map holds under a key: the datastore itself (get = "none"), the
\* wrapper { get: getInstance } of a lazy singleton, which closes over the
\* beforeCreate hook ("hooked"), or the wrapper of a lazy transient ("plain").
Payload(ds, get, before) == [ds |-> ds, get |-> get, before |-> before]

\* Map.has, Map.get, Map.set on an insertion-ordered list of entries.
MapHas(m, key) == \E i \in 1..Len(m) : m[i].key = key
MapGet(m, key) == (CHOOSE i \in 1..Len(m) : m[i].key = key)
MapSet(m, key, payload) ==
    IF MapHas(m, key)
    THEN [i \in 1..Len(m) |-> IF m[i].key = key THEN [key |-> key, payload |-> payload] ELSE m[i]]
    ELSE Append(m, [key |-> key, payload |-> payload])

\* The outcome of a register on the Map m: the Map after it, the result, and
\* how often beforeCreate and afterCreate ran.
Registered(m, res, nBefore, nAfter) ==
    [map |-> m, res |-> res, nBefore |-> nBefore, nAfter |-> nAfter]

\* The afterCreate part that ends registerSingleton and registerTransient.
AfterCreateHook(m, key, after, nBefore) ==
    IF after = "none" THEN Registered(m, COk("none"), nBefore, 0)
    ELSE IF after = "fail" THEN Registered(m, CFail(HookError("afterCreate", key)), nBefore, 1)
    ELSE Registered(m, COk("none"), nBefore, 1)

\* registerSingleton without the has(key) check: a second registration
\* replaces the first.
registerSingletonOverwrites(m, key, ds, lazy, before, after) ==
    IF lazy
    THEN AfterCreateHook(MapSet(m, key, Payload(ds, "hooked", before)), key, after, 0)
    ELSE IF before = "fail"
    THEN Registered(m, CFail(HookError("beforeCreate", key)), 1, 0)
    ELSE AfterCreateHook(MapSet(m, key, Payload(ds, "none", "none")), key, after,
                         IF before = "none" THEN 0 ELSE 1)

registerSingleton(m, key, ds, lazy, before, after) ==
    IF MapHas(m, key) THEN Registered(m, CFail(AlreadyRegistered(key)), 0, 0)
    ELSE IF lazy
    THEN AfterCreateHook(MapSet(m, key, Payload(ds, "hooked", before)), key, after, 0)
    ELSE IF before = "fail"
    THEN Registered(m, CFail(HookError("beforeCreate", key)), 1, 0)
    ELSE AfterCreateHook(MapSet(m, key, Payload(ds, "none", "none")), key, after,
                         IF before = "none" THEN 0 ELSE 1)

\* registerTransient that leaves a key already registered as it is.
registerTransientKeepsExisting(m, key, ds, lazy, before, after) ==
    IF before = "fail"
    THEN Registered(m, CFail(HookError("beforeCreate", key)), 1, 0)
    ELSE AfterCreateHook(
             IF MapHas(m, key) THEN m
             ELSE MapSet(m, key, Payload(ds, IF lazy THEN "plain" ELSE "none", "none")),
             key, after, IF before = "none" THEN 0 ELSE 1)

\* registerTransient that stores the instance before it runs beforeCreate.
registerTransientStoresFirst(m, key, ds, lazy, before, after) ==
    IF before = "fail"
    THEN Registered(MapSet(m, key, Payload(ds, IF lazy THEN "plain" ELSE "none", "none")),
                    CFail(HookError("beforeCreate", key)), 1, 0)
    ELSE AfterCreateHook(
             MapSet(m, key, Payload(ds, IF lazy THEN "plain" ELSE "none", "none")),
             key, after, IF before = "none" THEN 0 ELSE 1)

registerTransient(m, key, ds, lazy, before, after) ==
    IF before = "fail"
    THEN Registered(m, CFail(HookError("beforeCreate", key)), 1, 0)
    ELSE AfterCreateHook(
             MapSet(m, key, Payload(ds, IF lazy THEN "plain" ELSE "none", "none")),
             key, after, IF before = "none" THEN 0 ELSE 1)

register(m, key, ds, singleton, lazy, before, after) ==
    IF singleton THEN registerSingleton(m, key, ds, lazy, before, after)
    ELSE registerTransient(m, key, ds, lazy, before, after)

\* instance.get() of a lazy wrapper, or the instance itself: [res, nBefore].
Materialize(payload, key) ==
    IF payload.get = "hooked"
    THEN IF payload.before = "fail"
         THEN [res |-> CFail(HookError("beforeCreate", key)), nBefore |-> 1]
         ELSE [res |-> COk(payload.ds), nBefore |-> IF payload.before = "none" THEN 0 ELSE 1]
    ELSE [res |-> COk(payload.ds), nBefore |-> 0]

\* resolve(key) on container c of the hierarchy (inst, ch): the local entry
\* decides when there is one; otherwise the children are tried in order and
\* the first success is returned.  [res, nBefore].
RECURSIVE resolve(_, _, _, _), resolveChildren(_, _, _, _, _)

\* A resolve that goes on to the children when the local factory fails.
resolveFallsThrough(inst, ch, c, key) ==
    IF MapHas(inst[c], key)
       /\ Materialize(inst[c][MapGet(inst[c], key)].payload, key).res.ok
    THEN Materialize(inst[c][MapGet(inst[c], key)].payload, key)
    ELSE resolveChildren(inst, ch, ch[c], key, 0)

resolve(inst, ch, c, key) ==
    IF MapHas(inst[c], key)
    THEN Materialize(inst[c][MapGet(inst[c], key)].payload, key)
    ELSE resolveChildren(inst, ch, ch[c], key, 0)

\* A loop over the children that returns what the first child answers.
resolveChildrenStopsAtFirst(inst, ch, cs, key, n) ==
    IF cs = <<>> THEN [res |-> CFail(NotFound(key)), nBefore |-> n]
    ELSE resolve(inst, ch, Head(cs), key)

resolveChildren(inst, ch, cs, key, n) ==
    IF cs = <<>> THEN [res |-> CFail(NotFound(key)), nBefore |-> n]
    ELSE LET r == resolve(inst, ch, Head(cs), key)
         IN IF r.res.ok THEN [res |-> r.res, nBefore |-> n + r.nBefore]
            ELSE resolveChildren(inst, ch, Tail(cs), key, n + r.nBefore)

\* unregister(key) on the Map m: [map, res].
NotFoundToUnregister(key) == CErr("DataStore with key not found", key)

MapDelete(m, key) == SelectSeq(m, LAMBDA e : e.key # key)

\* An unregister that empties the Map.
unregisterClears(m, key) ==
    IF MapHas(m, key) THEN [map |-> <<>>, res |-> COk("none")]
    ELSE [map |-> m, res |-> CFail(NotFoundToUnregister(key))]

unregister(m, key) ==
    IF MapHas(m, key) THEN [map |-> MapDelete(m, key), res |-> COk("none")]
    ELSE [map |-> m, res |-> CFail(NotFoundToUnregister(key))]

\* Data store objects that have an onDestroy method of their own, and what
\* the method returns.
Disposables == {"dsOk", "dsFailA", "dsFailB"}
OwnOnDestroy(ds) ==
    IF ds = "dsOk" THEN "ok"
    ELSE IF ds \in {"dsFailA", "dsFailB"} THEN "fail"
    ELSE "none"

\* instance.onDestroy of a value of the Map: the method of the data store
\* stored eagerly; the wrapper { get } of a lazy registration has none.
OnDestroyOf(payload) ==
    IF payload.get = "none" THEN OwnOnDestroy(payload.ds) ELSE "none"

\* The error of a failing onDestroy, one line, and the errors that
\* errors.join("\n") makes one error of, as the list of their lines.
OnDestroyError(ds) == [kind |-> "onDestroy failed", key |-> NoKey, ds |-> ds]
Joined(lines) == [kind |-> "joined", key |-> NoKey, lines |-> lines]
LinesOf(error) == IF error.kind = "joined" THEN error.lines ELSE <<error>>

\* A join that keeps the error of the first failing result only.
JoinFirstOnly(results) ==
    IF \A i \in 1..Len(results) : results[i].ok THEN <<>>
    ELSE LinesOf(results[CHOOSE i \in 1..Len(results) :
                            ~results[i].ok /\ \A j \in 1..(i - 1) : results[j].ok].error)

RECURSIVE Join(_)
Join(results) ==
    IF results = <<>> THEN <<>>
    ELSE (IF Head(results).ok THEN <<>> ELSE LinesOf(Head(results).error))
         \o Join(Tail(results))

\* The first loop of destroy over the Map m of container c: the results
\* pushed and the hooks run.
RECURSIVE destroyLocal(_, _)
destroyLocal(m, c) ==
    IF m = <<>> THEN [results |-> <<>>, invoked |-> <<>>]
    ELSE LET rest == destroyLocal(Tail(m), c)
             hook == OnDestroyOf(Head(m).payload)
         IN IF hook = "none" THEN rest
            ELSE [results |-> <<IF hook = "ok" THEN COk("none")
                                ELSE CFail(OnDestroyError(Head(m).payload.ds))>>
                              \o rest.results,
                  invoked |-> <<[c |-> c, key |-> Head(m).key]>> \o rest.invoked]

\* A second loop of destroy that leaves the child containers alone.
destroyChildrenSkipped(inst, ch, cs) ==
    [inst |-> inst, ch |-> ch, results |-> <<>>, invoked |-> <<>>]

\* destroy() on container c of the hierarchy (inst, ch): the hierarchy after
\* it, the result, and the hooks run, in order.
RECURSIVE destroy(_, _, _), destroyChildren(_, _, _)
destroy(inst, ch, c) ==
    LET local == destroyLocal(inst[c], c)
        kids == destroyChildren(inst, ch, ch[c])
        onDestroyResults == local.results \o kids.results
    IN [inst |-> [kids.inst EXCEPT ![c] = <<>>],
        ch |-> [kids.ch EXCEPT ![c] = <<>>],
        res |-> IF \A i \in 1..Len(onDestroyResults) : onDestroyResults[i].ok
                THEN COk("none")
                ELSE CFail(Joined(Join(onDestroyResults))),
        invoked |-> local.invoked \o kids.invoked]

\* The second loop of destroy, over the child containers cs.
destroyChildren(inst, ch, cs) ==
    IF cs = <<>> THEN [inst |-> inst, ch |-> ch, results |-> <<>>, invoked |-> <<>>]
    ELSE LET first == destroy(inst, ch, Head(cs))
             rest == destroyChildren(first.inst, first.ch, Tail(cs))
         IN [inst |-> rest.inst, ch |-> rest.ch,
             results |-> <<first.res>> \o rest.results,
             invoked |-> first.invoked \o rest.invoked]

Containers == 1..Len(instances)

\* What resolve answers before anything was resolved.
NoResolve == [res |-> COk("none"), nBefore |-> 0]

\* The operation done last: its arguments, what it found (had: the key was in
\* the local Map; map: that Map; pre: what resolve(key) answered; insts, kids,
\* owned: instances, children and lifecycles as they were) and what it
\* returned (res; nBefore, nAfter: how often the hooks ran; invoked: the
\* onDestroy hooks run, in order).
NoOp == [op |-> "none", c |-> 0, key |-> NoKey, ds |-> "none",
         singleton |-> FALSE, lazy |-> FALSE, before |-> "none", after |-> "none",
         onDestroy |-> "none",
         had |-> FALSE, map |-> <<>>, pre |-> NoResolve,
         insts |-> <<>>, kids |-> <<>>, owned |-> <<>>,
         res |-> COk("none"), nBefore |-> 0, nAfter |-> 0, invoked |-> <<>>]

\* The object a register on Map m under key is handed: one the key does not
\* hold, so that the old and the new instance of a key can be told apart.
NewDataStore(m, key) ==
    IF MapHas(m, key) /\ m[MapGet(m, key)].payload.ds = "ds1" THEN "ds2" ELSE "ds1"

\* register got as far as Map.set: it succeeded, or failed in afterCreate.
ReachedSet(res, key) == res.ok \/ res.error = HookError("afterCreate", key)

\* register(key, ds, { singleton, lazy, lifecycle: { beforeCreate,
\* afterCreate, onDestroy } }) on container c.  No line of the container
\* reads lifecycle.onDestroy; lifecycles remembers for which keys it was given.
Register(c, key, ds, singleton, lazy, before, after, onDestroy) ==
    /\ nops < MaxOps
    /\ LET r == register(instances[c], key, ds, singleton, lazy, before, after)
       IN /\ instances' = [instances EXCEPT ![c] = r.map]
          /\ lifecycles' =
                IF ~ReachedSet(r.res, key) THEN lifecycles
                ELSE [lifecycles EXCEPT ![c] = IF onDestroy = "none" THEN @ \ {key}
                                               ELSE @ \cup {key}]
          /\ last' = [NoOp EXCEPT !.op = "register", !.c = c, !.key = key, !.ds = ds,
                      !.singleton = singleton, !.lazy = lazy,
                      !.before = before, !.after = after, !.onDestroy = onDestroy,
                      !.had = MapHas(instances[c], key), !.map = instances[c],
                      !.pre = resolve(instances, children, c, key),
                      !.insts = instances, !.kids = children, !.owned = lifecycles,
                      !.res = r.res, !.nBefore = r.nBefore, !.nAfter = r.nAfter]
    /\ nops' = nops + 1
    /\ UNCHANGED <<children, dsVars>>

Resolve(c, key) ==
    /\ nops < MaxOps
    /\ LET r == resolve(instances, children, c, key)
       IN last' = [NoOp EXCEPT !.op = "resolve", !.c = c, !.key = key,
                               !.had = MapHas(instances[c], key),
                               !.map = instances[c], !.pre = r,
                               !.insts = instances, !.kids = children,
                               !.owned = lifecycles,
                               !.res = r.res, !.nBefore = r.nBefore]
    /\ nops' = nops + 1
    /\ UNCHANGED <<instances, children, lifecycles, dsVars>>

\* A createChildContainer that also hands the new container to the root.
CreateChildShared(c, limit) ==
    /\ nops < MaxOps
    /\ Len(instances) < limit
    /\ instances' = Append(instances, <<>>)
    /\ children' = [d \in 1..(Len(children) + 1) |->
                       IF d = Len(children) + 1 THEN <<>>
                       ELSE IF d = c \/ d = 1
                            THEN Append(children[d], Len(instances) + 1)
                            ELSE children[d]]
    /\ lifecycles' = Append(lifecycles, {})
    /\ last' = [NoOp EXCEPT !.op = "createChildContainer", !.c = c,
                            !.insts = instances, !.kids = children,
                            !.owned = lifecycles]
    /\ nops' = nops + 1
    /\ UNCHANGED dsVars

\* createChildContainer of container c, while fewer than limit containers exist.
CreateChild(c, limit) ==
    /\ nops < MaxOps
    /\ Len(instances) < limit
    /\ instances' = Append(instances, <<>>)
    /\ children' = [Append(children, <<>>) EXCEPT ![c] = Append(children[c], Len(instances) + 1)]
    /\ lifecycles' = Append(lifecycles, {})
    /\ last' = [NoOp EXCEPT !.op = "createChildContainer", !.c = c,
                            !.insts = instances, !.kids = children,
                            !.owned = lifecycles]
    /\ nops' = nops + 1
    /\ UNCHANGED dsVars

CreateChildContainer(c) == CreateChild(c, MaxContainers)

Unregister(c, key) ==
    /\ nops < MaxOps
    /\ LET r == unregister(instances[c], key)
       IN /\ instances' = [instances EXCEPT ![c] = r.map]
          /\ lifecycles' = IF r.res.ok THEN [lifecycles EXCEPT ![c] = @ \ {key}]
                           ELSE lifecycles
          /\ last' = [NoOp EXCEPT !.op = "unregister", !.c = c, !.key = key,
                                  !.had = MapHas(instances[c], key),
                                  !.map = instances[c],
                                  !.pre = resolve(instances, children, c, key),
                                  !.insts = instances, !.kids = children,
                                  !.owned = lifecycles,
                                  !.res = r.res]
    /\ nops' = nops + 1
    /\ UNCHANGED <<children, dsVars>>

\* The containers below c: its children and theirs.
RECURSIVE Descendants(_, _), DescendantsOfAll(_, _)
Descendants(ch, c) == DescendantsOfAll(ch, ch[c])
DescendantsOfAll(ch, cs) ==
    IF cs = <<>> THEN {}
    ELSE {Head(cs)} \cup Descendants(ch, Head(cs)) \cup DescendantsOfAll(ch, Tail(cs))

Destroy(c) ==
    /\ nops < MaxOps
    /\ LET r == destroy(instances, children, c)
       IN /\ instances' = r.inst
          /\ children' = r.ch
          /\ lifecycles' = [d \in Containers |->
                               IF r.inst[d] = <<>> THEN {} ELSE lifecycles[d]]
          /\ last' = [NoOp EXCEPT !.op = "destroy", !.c = c,
                                  !.map = instances[c],
                                  !.insts = instances, !.kids = children,
                                  !.owned = lifecycles,
                                  !.res = r.res, !.invoked = r.invoked]
    /\ nops' = nops + 1
    /\ UNCHANGED dsVars

InitContainer ==
    /\ instances = <<<<>>>>
    /\ children = <<<<>>>>
    /\ lifecycles = <<{}>>
    /\ nops = 0
    /\ last = NoOp

Init ==
    /\ store = <<>>
    /\ \E cfg \in EngineConfigs : uniqueKeys = cfg.keys /\ caps = cfg.caps
    /\ call = IdleCall
    /\ calls = 0
    /\ writes = 0
    /\ prev = NoPrev
    /\ lastQuery = NoQuery
    /\ link = NoLink
    /\ other = IdleCall
    /\ InitContainer

Next ==
    \/ \E data \in Entities, inj \in {NoInj} \cup CreateFailures : CallCreate(data, inj)
    \/ \E inj \in {NoInj} \cup EngineFailures : StepUniqueIndexes(inj)
    \/ \E inj \in {NoInj} \cup EngineFailures : StepFind(inj)
    \/ \E inj \in {NoInj} \cup EngineFailures : StepUpdate(inj)

Spec == Init /\ [][Next]_vars

\* Calls on an engine that does not fail on its own account and whose unique
\* indexes change between calls.
IndexSets == {<<<<"a">>>>, <<<<"b">>>>, <<<<"a">>, <<"b">>>>}

NextReindex ==
    \/ \E data \in Entities : CallCreate(data, NoInj)
    \/ StepUniqueIndexes(NoInj)
    \/ StepFind(NoInj)
    \/ StepUpdate(NoInj)
    \/ \E keys \in IndexSets : ChangeIndexes(keys)

SpecReindex == Init /\ [][NextReindex]_vars

\* Two overlapping calls on an engine that does not fail on its own account.
NextRace ==
    \/ \E data \in Entities : StartCall(data)
    \/ StepCreate
    \/ StepUniqueIndexes(NoInj)
    \/ StepFind(NoInj)
    \/ StepUpdate(NoInj)
    \/ Switch

SpecRace == Init /\ [][NextRace]_vars

InitC ==
    /\ store = <<>>
    /\ uniqueKeys = <<<<"a">>>> /\ caps = "listed"
    /\ call = IdleCall
    /\ calls = 0
    /\ writes = 0
    /\ prev = NoPrev
    /\ lastQuery = NoQuery
    /\ link = NoLink
    /\ other = IdleCall
    /\ InitContainer

NextC ==
    \/ \E c \in Containers, key \in Keys,
          singleton \in BOOLEAN, lazy \in BOOLEAN, before \in Hooks, after \in Hooks :
            Register(c, key, NewDataStore(instances[c], key),
                     singleton, lazy, before, after, "none")
    \/ \E c \in Containers, key \in Keys : Resolve(c, key)
    \/ \E c \in Containers : CreateChildContainer(c)

SpecContainer == InitC /\ [][NextC]_vars

\* A hierarchy built by createChildContainer on the root, on its first child
\* and on the root again: container 1 has the children 2 and 4, container 2
\* has the child 3.
Hierarchy == <<<<2, 4>>, <<3>>, <<>>, <<>>>>

InitHierarchy ==
    /\ store = <<>>
    /\ uniqueKeys = <<<<"a">>>> /\ caps = "listed"
    /\ call = IdleCall
    /\ calls = 0
    /\ writes = 0
    /\ prev = NoPrev
    /\ lastQuery = NoQuery
    /\ link = NoLink
    /\ other = IdleCall
    /\ instances = [c \in 1..Len(Hierarchy) |-> <<>>]
    /\ children = Hierarchy
    /\ lifecycles = [c \in 1..Len(Hierarchy) |-> {}]
    /\ nops = 0
    /\ last = NoOp

\* The registrations resolve and unregister are exercised with: an eager
\* singleton of either data store, a lazy singleton whose beforeCreate fails,
\* and an eager transient.
ResolveRegistrations ==
    { [ds |-> "ds1", singleton |-> TRUE, lazy |-> FALSE, before |-> "none"],
      [ds |-> "ds2", singleton |-> TRUE, lazy |-> FALSE, before |-> "none"],
      [ds |-> "ds1", singleton |-> TRUE, lazy |-> TRUE, before |-> "fail"],
      [ds |-> "ds2", singleton |-> FALSE, lazy |-> FALSE, before |-> "none"] }

NextResolve ==
    \/ \E c \in Containers, key \in Keys, o \in ResolveRegistrations :
            Register(c, key, o.ds, o.singleton, o.lazy, o.before, "none", "none")
    \/ \E c \in Containers, key \in Keys : Resolve(c, key)
    \/ \E c \in Containers, key \in Keys : Unregister(c, key)

SpecResolve == InitHierarchy /\ [][NextResolve]_vars

\* The registrations destroy is exercised with: data stores with an onDestroy
\* method of their own, succeeding or failing, stored eagerly or behind a lazy
\* wrapper, and a data store without one registered with lifecycle.onDestroy.
DestroyRegistrations ==
    { [ds |-> "dsOk", lazy |-> FALSE, onDestroy |-> "none"],
      [ds |-> "dsFailA", lazy |-> FALSE, onDestroy |-> "none"],
      [ds |-> "dsFailB", lazy |-> FALSE, onDestroy |-> "none"],
      [ds |-> "dsFailA", lazy |-> TRUE, onDestroy |-> "none"],
      [ds |-> "ds1", lazy |-> FALSE, onDestroy |-> "ok"] }

NextDestroy ==
    \/ \E c \in Containers, key \in Keys, o \in DestroyRegistrations :
            Register(c, key, o.ds, TRUE, o.lazy, "none", "none", o.onDestroy)
    \/ \E c \in Containers : Destroy(c)

SpecDestroy == InitHierarchy /\ [][NextDestroy]_vars

\* Hierarchies grown by createChildContainer from the root alone, with
\* registrations, resolves and destroys in between.
MaxTree == 4

NextTree ==
    \/ \E c \in Containers : CreateChild(c, MaxTree)
    \/ \E c \in Containers, key \in Keys, o \in ResolveRegistrations :
            Register(c, key, o.ds, o.singleton, o.lazy, o.before, "none", "none")
    \/ \E c \in Containers, key \in Keys : Resolve(c, key)
    \/ \E c \in Containers : Destroy(c)

SpecTree == InitC /\ [][NextTree]_vars

InitQuery ==
    /\ store = Sample
    /\ uniqueKeys = <<<<"id">>>> /\ caps = "listed"
    /\ call = IdleCall
    /\ calls = 0
    /\ writes = 0
    /\ prev = NoPrev
    /\ lastQuery = NoQuery
    /\ link = NoLink
    /\ other = IdleCall
    /\ InitContainer

NextQuery ==
    \/ \E queryFilter \in CompileFilters : Compile(queryFilter)
    \/ \E queryFilter \in FindFilters, inj \in {NoInj, ErrObject} : Find(queryFilter, inj)

SpecQuery == InitQuery /\ [][NextQuery]_vars

InitSort ==
    /\ store = Catalogue
    /\ uniqueKeys = <<<<"id">>>> /\ caps = "listed"
    /\ call = IdleCall
    /\ calls = 0
    /\ writes = 0
    /\ prev = NoPrev
    /\ lastQuery = NoQuery
    /\ link = NoLink
    /\ other = IdleCall
    /\ InitContainer

NextSort ==
    \E queryFilter \in SortedFilters, inj \in {NoInj, ErrObject} : Find(queryFilter, inj)

SpecSort == InitSort /\ [][NextSort]_vars

InitUpdate ==
    /\ store \in {Shelf, SubSeq(Shelf, 1, 1)}
    /\ uniqueKeys = <<<<"a">>>> /\ caps = "listed"
    /\ call = IdleCall
    /\ calls = 0
    /\ writes = 0
    /\ prev = NoPrev
    /\ lastQuery = NoQuery
    /\ link = NoLink
    /\ other = IdleCall
    /\ InitContainer

NextUpdate ==
    \E conditions \in UpdateConditions, updateData \in Entities, inj \in {NoInj, ErrObject} :
        Update(conditions, updateData, inj)

SpecUpdate == InitUpdate /\ [][NextUpdate]_vars

NextLink ==
    \/ \E driver \in DriverOutcomes, index \in DriverOutcomes : Connect(driver, index)
    \/ \E driver \in DriverOutcomes : Disconnect(driver)
    \/ \E implemented \in BOOLEAN, inj \in {NoInj} \cup EngineFailures :
            CallGetIndexes(implemented, inj)
    \/ \E inj \in {NoInj} \cup EngineFailures : CallGetUniqueIndexes(inj)

SpecLink == Init /\ [][NextLink]_vars

(***************************************************************************)
(* Properties of CreateOrupdateByUniqueIndexes.                            *)
(***************************************************************************)

Done == call.pc = "done"

\* No engine call of the current call failed on the engine's own account.
Clean == \A k \in 1..Len(call.log) : ~call.log[k].injected

Issued(op) == \E k \in 1..Len(call.log) : call.log[k].op = op

\* The unique-index fields the engine reports.
ReportedIndexes == IF caps = "listed" THEN Flat(uniqueKeys) ELSE <<>>

\* data has a value in at least one unique-index field the engine reports.
HasIdentity(data) ==
    \E k \in 1..Len(ReportedIndexes) : data[ReportedIndexes[k]] # Undef

\* The create of the current call failed with a genuine duplicate key.
CreateCollided ==
    /\ call.pc # "idle"
    /\ ~call.log[1].ok
    /\ ~call.log[1].injected
    /\ call.log[1].error = ErrDuplicateKey

\* The current call repeats the data of the call before it, which started on
\* a store with no entity having data's value in a unique-index field; the
\* engine never failed on its own account.
SecondOfTwoIdentical ==
    /\ Done
    /\ prev.valid /\ prev.fresh /\ prev.clean
    /\ prev.data = call.data
    /\ HasIdentity(call.data)
    /\ Clean

Conflicts(row, data) ==
    \E k \in 1..Len(uniqueKeys) :
        /\ \A j \in 1..Len(uniqueKeys[k]) : row[uniqueKeys[k][j]] = data[uniqueKeys[k][j]]
        /\ \E j \in 1..Len(uniqueKeys[k]) : data[uniqueKeys[k][j]] # Undef

\* row has the value of data in every field data has.
AgreesWith(row, data) == \A f \in DOMAIN data : data[f] # Undef => row[f] = data[f]

\* C2: when create fails with a duplicate key because a stored entity has
\* data's value in a unique index, the call succeeds and that entity then
\* carries data.
C2_ConstraintReconciled ==
    (/\ Done /\ CreateCollided /\ Clean /\ caps = "listed"
     /\ \E i \in 1..Len(store) : Conflicts(store[i], call.data))
    => /\ call.res.ok
       /\ \A i \in 1..Len(store) :
              Conflicts(store[i], call.data) => AgreesWith(store[i], call.data)

\* C3: when create succeeds the call is over: it returns the created entity
\* alone and has called neither getUniqueIndexes, find nor update.
C3_CreateSuccessIsTerminal ==
    (call.pc # "idle" /\ call.log[1].ok) =>
        /\ Done
        /\ Len(call.log) = 1
        /\ call.res = Ok(<<call.data>>)
        /\ store[Len(store)] = call.data

C3_Witness == call.pc # "idle" /\ call.log[1].ok /\ Len(store) > 1

\* C4: when create fails with anything but code 11000 the call is over: it
\* returns failure with the very error create returned and has called
\* neither getUniqueIndexes, find nor update.
C4_OtherFailurePropagates ==
    (call.pc # "idle" /\ ~call.log[1].ok /\ call.log[1].error.code # {DuplicateKeyCode}) =>
        /\ Done
        /\ Len(call.log) = 1
        /\ call.res = Fail(call.log[1].error)

\* create collided and the engine has no getUniqueIndexes, or lists nothing.
NoIndexesToReconcile ==
    /\ Done /\ CreateCollided
    /\ caps \in {"unsupported", "empty"}
    /\ Clean

\* C5 as stated: with no unique indexes to be had the call fails with
\* "Failed to fetch unique indexes", without find, update or a write.
C5_FailedToFetchAlways ==
    NoIndexesToReconcile =>
        /\ call.res = Fail(FailedToFetch)
        /\ ~Issued("find") /\ ~Issued("update")
        /\ writes = call.w0

\* C5, amended: the call fails without find, update or a write; the error is
\* "getUniqueIndexes is not implemented" when the engine has no
\* getUniqueIndexes and "Failed to fetch unique indexes" when it lists nothing.
C5_NoIndexesIsTerminal ==
    NoIndexesToReconcile =>
        /\ call.res = Fail(IF caps = "unsupported" THEN NotImplemented ELSE FailedToFetch)
        /\ ~Issued("find") /\ ~Issued("update")
        /\ Len(call.log) = 2
        /\ writes = call.w0

C5_Witness == NoIndexesToReconcile /\ caps = "unsupported" /\ Len(store) > 0

\* C6: a failed find or update is the last engine call of its call, and the
\* call returns failure with that error and without the accumulated entities.
C6_FailureAborts ==
    \A k \in 1..Len(call.log) :
        (call.log[k].op \in {"find", "update"} /\ ~call.log[k].ok) =>
            /\ k = Len(call.log)
            /\ Done
            /\ call.res = Fail(call.log[k].error)

\* An update fails in a later iteration, after an entity was accumulated and
\* with a found entity left.
C6_Witness ==
    /\ Done
    /\ call.log[Len(call.log)].op = "update"
    /\ ~call.log[Len(call.log)].ok
    /\ Len(call.acc) > 0

(***************************************************************************)
(* Properties of DataStoreContainer.register and resolve.                  *)
(***************************************************************************)

\* The operation done last is a register.
Registering == last.op = "register"

\* What resolve answers now for the key of the last operation, on its
\* container.
ResolveNow == resolve(instances, children, last.c, last.key)

\* C7: a singleton register on a key the local Map already has fails with
\* "already registered", runs no hook and leaves the Map as it was, so that
\* resolve(key) answers as before.
C7_SingletonRejectsSecond ==
    (Registering /\ last.singleton /\ last.had) =>
        /\ last.res = CFail(AlreadyRegistered(last.key))
        /\ last.nBefore = 0 /\ last.nAfter = 0
        /\ instances[last.c] = last.map
        /\ ResolveNow = last.pre

C7_Witness ==
    /\ Registering /\ last.singleton /\ last.had
    /\ last.pre.res.ok
    /\ last.pre.res.data # last.ds

\* C8: a transient register with no failing hook succeeds on every key, a
\* registered one included, and resolve(key) then returns the new instance.
C8_TransientReplaces ==
    (Registering /\ ~last.singleton /\ last.before # "fail" /\ last.after # "fail") =>
        /\ last.res = COk("none")
        /\ ResolveNow.res = COk(last.ds)

C8_Witness ==
    /\ Registering /\ ~last.singleton /\ last.had
    /\ last.before # "fail" /\ last.after # "fail"
    /\ last.pre.res.ok
    /\ last.pre.res.data # last.ds

\* The last operation is an eager register on a key the local Map did not
\* have.
EagerOnFreeKey == Registering /\ ~last.lazy /\ ~last.had

\* C9 as stated: when beforeCreate or afterCreate fails in an eager register
\* on a free key, register fails naming the key and the hook, and the
\* instance is stored all the same.
C9_HookFailureStillStores ==
    (EagerOnFreeKey /\ (last.before = "fail" \/ last.after = "fail")) =>
        /\ last.res = CFail(HookError(IF last.before = "fail" THEN "beforeCreate"
                                      ELSE "afterCreate", last.key))
        /\ ResolveNow.res = COk(last.ds)

\* C9, amended: a failing afterCreate (beforeCreate absent or succeeding)
\* fails the register, naming key and hook, with the instance stored; a
\* failing beforeCreate fails it before anything is stored, and afterCreate
\* does not run.
C9_OnlyAfterCreateFailureStores ==
    EagerOnFreeKey =>
        /\ (last.before # "fail" /\ last.after = "fail") =>
              /\ last.res = CFail(HookError("afterCreate", last.key))
              /\ ResolveNow.res = COk(last.ds)
        /\ last.before = "fail" =>
              /\ last.res = CFail(HookError("beforeCreate", last.key))
              /\ last.nAfter = 0
              /\ instances[last.c] = last.map
              /\ ~MapHas(instances[last.c], last.key)

C9_Witness ==
    /\ EagerOnFreeKey
    /\ last.before # "fail" /\ last.after = "fail"
    /\ MapHas(instances[last.c], last.key)
    /\ instances[last.c][MapGet(instances[last.c], last.key)].payload.get = "none"

\* C10: once an instance is registered lazily with a beforeCreate hook, as a
\* singleton or as a transient, a resolve(key) runs beforeCreate exactly once
\* and returns the instance when the hook succeeds.
C10_LazyResolveRunsBeforeCreate ==
    (/\ Registering /\ last.lazy
     /\ last.before # "none"
     /\ last.singleton => ~last.had
     /\ ~last.singleton => last.before = "ok")
    => /\ ResolveNow.nBefore = 1
       /\ last.before = "ok" => ResolveNow.res = COk(last.ds)

\* C11: a lazy register runs no lifecycle hook during the register call, the
\* hooks being left to the first resolve; an eager register that gets past
\* the singleton check runs beforeCreate, and afterCreate when beforeCreate
\* did not fail, inside register.
C11_LazyRegisterRunsNoHook ==
    /\ (Registering /\ last.lazy) => (last.nBefore = 0 /\ last.nAfter = 0)
    /\ (Registering /\ ~last.lazy /\ ~(last.singleton /\ last.had)) =>
          /\ last.nBefore = (IF last.before = "none" THEN 0 ELSE 1)
          /\ last.nAfter = (IF last.before = "fail" \/ last.after = "none" THEN 0 ELSE 1)

(***************************************************************************)
(* Properties of resolve and unregister in a hierarchy.                    *)
(***************************************************************************)

\* What the registration of key in the Map of container c answers.
LocalAnswer(inst, c, key) == Materialize(inst[c][MapGet(inst[c], key)].payload, key).res

\* The containers whose registration of key a search from c comes to, in
\* order: c itself when it registers key, otherwise those of its children in
\* creation order, each child's subtree before the next child.
RECURSIVE Visits(_, _, _, _), VisitsOfAll(_, _, _, _)
Visits(inst, ch, c, key) ==
    IF MapHas(inst[c], key) THEN <<c>> ELSE VisitsOfAll(inst, ch, ch[c], key)
VisitsOfAll(inst, ch, cs, key) ==
    IF cs = <<>> THEN <<>>
    ELSE Visits(inst, ch, Head(cs), key) \o VisitsOfAll(inst, ch, Tail(cs), key)

\* The first successful answer among the containers visited, or not-found.
FirstSuccess(inst, ch, c, key) ==
    LET v == Visits(inst, ch, c, key)
        good == {i \in 1..Len(v) : LocalAnswer(inst, v[i], key).ok}
    IN IF good = {} THEN CFail(NotFound(key))
       ELSE LocalAnswer(inst, v[CHOOSE i \in good : \A j \in good : i <= j], key)

\* C12: resolve(key) is what the local registration answers whenever the
\* container registers key, a failure of its lazy factory included; otherwise
\* it is the first success among the children in creation order, depth-first.
C12_LocalThenChildrenInOrder ==
    /\ \A c \in Containers, key \in Keys :
          resolve(instances, children, c, key).res =
             (IF MapHas(instances[c], key) THEN LocalAnswer(instances, c, key)
              ELSE FirstSuccess(instances, children, c, key))
    /\ last.op = "resolve" =>
          last.res = (IF last.had THEN LocalAnswer(last.insts, last.c, last.key)
                      ELSE FirstSuccess(last.insts, last.kids, last.c, last.key))

\* A resolve on the root finds the key in the grandchild 3 and in the second
\* child 4, under different data stores, and answers with that of 3.
C12_Witness ==
    /\ last.op = "resolve" /\ last.c = 1 /\ ~last.had
    /\ ~MapHas(instances[2], last.key)
    /\ MapHas(instances[3], last.key) /\ MapHas(instances[4], last.key)
    /\ LocalAnswer(instances, 3, last.key).ok
    /\ LocalAnswer(instances, 4, last.key).ok
    /\ LocalAnswer(instances, 3, last.key) # LocalAnswer(instances, 4, last.key)
    /\ last.res = LocalAnswer(instances, 3, last.key)

\* key is registered in container c or in a container below it.
RegisteredInSubtree(inst, ch, c, key) ==
    \E d \in {c} \cup Descendants(ch, c) : MapHas(inst[d], key)

\* C13 as stated: resolve(key) fails with not-found exactly when key is
\* registered neither in the container nor in a container below it.
C13_NotFoundIffRegisteredNowhere ==
    \A c \in Containers, key \in Keys :
        resolve(instances, children, c, key).res = CFail(NotFound(key))
            <=> ~RegisteredInSubtree(instances, children, c, key)

\* C13, amended: resolve(key) fails with not-found exactly when the container
\* does not register key and no registration the search comes to below it
\* answers with success: always when key is registered nowhere in the
\* subtree, never when it is registered locally.
C13_NotFoundIffNoSuccessBelow ==
    \A c \in Containers, key \in Keys :
        LET res == resolve(instances, children, c, key).res
            v == Visits(instances, children, c, key)
        IN /\ res = CFail(NotFound(key))
                <=> /\ ~MapHas(instances[c], key)
                    /\ \A i \in 1..Len(v) : ~LocalAnswer(instances, v[i], key).ok
           /\ ~RegisteredInSubtree(instances, children, c, key) => res = CFail(NotFound(key))
           /\ MapHas(instances[c], key) => res # CFail(NotFound(key))

\* A resolve on the root answers not-found although a child registers the
\* key, lazily and with a failing beforeCreate.
C13_Witness ==
    /\ last.op = "resolve" /\ last.c = 1
    /\ last.res = CFail(NotFound(last.key))
    /\ MapHas(instances[2], last.key)
    /\ ~LocalAnswer(instances, 2, last.key).ok

\* The Maps of the containers other than that of the last operation, and all
\* child lists, are as they were before it.
OthersUntouched ==
    /\ children = last.kids
    /\ \A d \in Containers \ {last.c} : instances[d] = last.insts[d]

\* The Map of the container of the last operation holds under every key but
\* that of the operation what it held before it.
OtherKeysUntouched ==
    \A k \in Keys \ {last.key} :
        /\ MapHas(instances[last.c], k) <=> MapHas(last.map, k)
        /\ MapHas(last.map, k) =>
              instances[last.c][MapGet(instances[last.c], k)]
                  = last.map[MapGet(last.map, k)]

\* C14: register and unregister touch only the Map of their own container.
\* unregister(key) succeeds exactly when the key is in that Map and then
\* removes that entry alone; on a parent whose child registers the key it
\* fails and the key resolves through the parent as before.  A singleton
\* register on a key free in the own Map succeeds whatever the children hold.
C14_RegistrationIsLocal ==
    /\ last.op \in {"register", "unregister"} => OthersUntouched
    /\ last.op = "unregister" =>
          /\ last.res.ok <=> last.had
          /\ OtherKeysUntouched
          /\ ~MapHas(instances[last.c], last.key)
          /\ Len(instances[last.c]) = Len(last.map) - (IF last.had THEN 1 ELSE 0)
          /\ ~last.had =>
                /\ last.res = CFail(NotFoundToUnregister(last.key))
                /\ ResolveNow = last.pre
    /\ (/\ Registering /\ last.singleton /\ ~last.had
        /\ last.before # "fail" /\ last.after # "fail") =>
          /\ last.res.ok
          /\ MapHas(instances[last.c], last.key)

\* An unregister on a container that does not register the key, a container
\* below it registering it with success: it fails.
C14_Witness ==
    /\ last.op = "unregister" /\ ~last.had
    /\ last.pre.res.ok
    /\ Len(last.map) > 0
    /\ ResolveNow.res.ok

(***************************************************************************)
(* Properties of destroy.                                                  *)
(***************************************************************************)

Destroyed == last.op = "destroy"

\* The entries of the Map m whose value has an onDestroy, in insertion order.
WithOnDestroy(m) == SelectSeq(m, LAMBDA e : OnDestroyOf(e.payload) # "none")

\* The onDestroy hooks of container c and of the containers below it, as
\* [c, key, ds, hook], local ones first and in insertion order, then those of
\* each child in child order.
RECURSIVE HooksBelow(_, _, _), HooksBelowAll(_, _, _)
HooksBelow(inst, ch, c) ==
    [i \in 1..Len(WithOnDestroy(inst[c])) |->
        [c |-> c, key |-> WithOnDestroy(inst[c])[i].key,
         ds |-> WithOnDestroy(inst[c])[i].payload.ds,
         hook |-> OnDestroyOf(WithOnDestroy(inst[c])[i].payload)]]
    \o HooksBelowAll(inst, ch, ch[c])
HooksBelowAll(inst, ch, cs) ==
    IF cs = <<>> THEN <<>>
    ELSE HooksBelow(inst, ch, Head(cs)) \o HooksBelowAll(inst, ch, Tail(cs))

\* The hooks destroy had to run, and the errors of the failing ones.
HooksDue == HooksBelow(last.insts, last.kids, last.c)
ErrorsDue ==
    LET failing == SelectSeq(HooksDue, LAMBDA h : h.hook = "fail")
    IN [i \in 1..Len(failing) |-> OnDestroyError(failing[i].ds)]

\* C15: after destroy, with success or with failure, the Map and the child
\* list of the container and of every container that was below it are empty,
\* and resolve of any key on the container fails with not-found.
C15_DestroyEmptiesSubtree ==
    Destroyed =>
        /\ \A d \in {last.c} \cup Descendants(last.kids, last.c) :
              instances[d] = <<>> /\ children[d] = <<>>
        /\ \A key \in Keys :
              resolve(instances, children, last.c, key).res = CFail(NotFound(key))

\* A destroy that fails, of a container with an instance of its own and
\* with instances in a container below it.
C15_Witness ==
    /\ Destroyed /\ ~last.res.ok
    /\ last.map # <<>>
    /\ \E d \in Descendants(last.kids, last.c) : last.insts[d] # <<>>

\* C16: destroy succeeds exactly when every hook it ran and every child's
\* destroy succeeded; otherwise its error is the errors of the failing ones
\* joined, local ones in insertion order and then the children's in child
\* order.  A failure stops nothing: every hook due is run.
C16_DestroyJoinsAllFailures ==
    Destroyed =>
        /\ last.res.ok <=> \A i \in 1..Len(HooksDue) : HooksDue[i].hook = "ok"
        /\ ~last.res.ok => last.res = CFail(Joined(ErrorsDue))
        /\ last.invoked = [i \in 1..Len(HooksDue) |->
                              [c |-> HooksDue[i].c, key |-> HooksDue[i].key]]

\* A destroy failing with two different errors, the first of a local hook and
\* the second of a hook in a child.
C16_Witness ==
    /\ Destroyed /\ ~last.res.ok
    /\ Len(last.res.error.lines) = 2
    /\ last.res.error.lines[1] # last.res.error.lines[2]
    /\ last.invoked[1].c = last.c
    /\ last.invoked[2].c # last.c

\* C17: destroy runs the onDestroy of every instance registered with one in
\* its lifecycle options exactly once, and runs all local hooks before it
\* destroys a child.
C17_LifecycleOnDestroyRunsOnce ==
    Destroyed =>
        /\ \A key \in last.owned[last.c] :
              Cardinality({i \in 1..Len(last.invoked) :
                              last.invoked[i] = [c |-> last.c, key |-> key]}) = 1
        /\ \A i, j \in 1..Len(last.invoked) :
              (last.invoked[i].c = last.c /\ last.invoked[j].c # last.c) => i < j

(***************************************************************************)
(* Properties of buildQuery and find.                                      *)
(***************************************************************************)

Compiled == lastQuery.op = "compile"

\* C18: with a not part, every field of the compiled not filter is in the
\* result under $ne of its compiled value, whatever the rest of the filter
\* put there, and the other fields are those of the rest; { not: { conditions:
\* [{ a: 1 }] } } compiles to { a: { $ne: 1 } }, and the $or of a not filter
\* ends up as $or under $ne.
C18_NotWrapsEveryField ==
    (Compiled /\ lastQuery.filter.not # <<>>) =>
        LET inner == buildQuery(lastQuery.filter.not[1])
            rest == buildQuery([lastQuery.filter EXCEPT !.not = <<>>])
            native == lastQuery.native
        IN /\ DOMAIN native = (DOMAIN rest) \cup (DOMAIN inner)
           /\ \A g \in DOMAIN inner : native[g] = Ne(inner[g])
           /\ \A g \in (DOMAIN rest) \ (DOMAIN inner) : native[g] = rest[g]
           /\ lastQuery.filter.not[1].or # <<>> =>
                 /\ native["$or"].ne = 1
                 /\ native["$or"].alts
                      = [i \in 1..Len(lastQuery.filter.not[1].or) |->
                            buildQuery(lastQuery.filter.not[1].or[i])]
           /\ [lastQuery.filter EXCEPT !.page = Absent, !.limit = Absent,
                                       !.sort = <<>>, !.fields = <<>>]
                 = [Leaf(<<>>) EXCEPT !.not = <<Leaf(<<Cond("a", V("1"))>>)>>]
              => native = [g \in {"a"} |-> Ne(V("1"))]

\* A not over conditions and an or, compiled onto a query that holds a field
\* and a $or of its own.
C18_Witness ==
    /\ Compiled
    /\ lastQuery.filter.not # <<>>
    /\ lastQuery.filter.not[1].or # <<>>
    /\ lastQuery.filter.or # <<>>
    /\ "a" \in DOMAIN buildQuery([lastQuery.filter EXCEPT !.not = <<>>])
    /\ "a" \in DOMAIN buildQuery(lastQuery.filter.not[1])

\* The filter without what find reads of it.
PredicateOf(queryFilter) ==
    [queryFilter EXCEPT !.page = Absent, !.limit = Absent, !.sort = <<>>, !.fields = <<>>]

\* The lists that have the entries of seq in another order.
PermutationsOf(seq) ==
    { [i \in 1..Len(seq) |-> seq[p[i]]] :
        p \in {f \in [1..Len(seq) -> 1..Len(seq)] :
                  \A i, j \in 1..Len(seq) : f[i] = f[j] => i = j} }

Found == lastQuery.op = "find" /\ lastQuery.res.ok

\* What the native filter of the last find matches, in the order of its sort
\* criteria (in collection order without).
Matched == SortBy(<<>>, ModelFind(store, lastQuery.native), lastQuery.builder.sort)

\* page and limit are both given and not 0.
Paginated ==
    /\ lastQuery.filter.page \notin {Absent, Given(0)}
    /\ lastQuery.filter.limit \notin {Absent, Given(0)}

\* C20: find paginates exactly when page and limit are both given and not 0:
\* it then leaves out the first (page - 1) * limit matches and returns the
\* limit next ones, or those there are; otherwise it returns every match.
C20_PaginationNeedsPageAndLimit ==
    Found =>
        /\ Paginated <=> lastQuery.builder.skip # Absent
        /\ Paginated <=> lastQuery.builder.limit # Absent
        /\ Paginated =>
              LET limit == lastQuery.filter.limit[1]
                  skip == (lastQuery.filter.page[1] - 1) * limit
                  left == IF Len(Matched) > skip THEN Len(Matched) - skip ELSE 0
              IN /\ lastQuery.builder.skip = Given(skip)
                 /\ lastQuery.builder.limit = Given(limit)
                 /\ Len(lastQuery.res.data) = (IF left < limit THEN left ELSE limit)
                 /\ \A i \in 1..Len(lastQuery.res.data) :
                       lastQuery.res.data[i] = Matched[skip + i]
        /\ ~Paginated => lastQuery.res.data = Matched

\* A find of the second page of two, of four matches.
C20_Witness ==
    /\ Found /\ Paginated
    /\ lastQuery.filter.page = Given(2) /\ lastQuery.filter.limit = Given(2)
    /\ Len(Matched) = 4
    /\ Len(lastQuery.res.data) = 2
    /\ lastQuery.res.data[1] = Matched[3]

\* The documents the native filter of the last find matches.
MatchSet == {store[i] : i \in {j \in 1..Len(store) : Matches(store[j], lastQuery.native)}}

\* The documents of the match set that the sort option of the last find puts
\* before doc: those of lower rank when the order is asc, of higher when desc.
SortedBefore(doc) ==
    LET options == lastQuery.filter.sort
        desc == options[Len(options)].order = "desc"
    IN {d \in MatchSet : IF desc THEN d.rank > doc.rank ELSE d.rank < doc.rank}

SortedFind == Found /\ Paginated /\ lastQuery.filter.sort # <<>>

Connecting == link.op = "connect"
Disconnecting == link.op = "disconnect"
TouchedDriver == link.out.connects + link.out.indexes + link.out.closes > 0

\* C22: the driver establishes a connection only in a connect of a store
\* that held no handle, and closes one only in a disconnect of a store that
\* held one; a connect of a store holding a handle returns that handle and a
\* disconnect of a store holding none returns success, neither calling the
\* driver.
C22_ConnectDisconnectIdempotent ==
    /\ link.out.connects > 0 => Connecting /\ link.pre = NoHandle
    /\ link.out.closes > 0 => Disconnecting /\ link.pre # NoHandle
    /\ Connecting /\ link.pre # NoHandle =>
          /\ ~TouchedDriver /\ ~link.out.threw
          /\ link.out.res = Ok(link.pre) /\ link.conn = link.pre
    /\ Disconnecting /\ link.pre = NoHandle =>
          ~TouchedDriver /\ ~link.out.threw /\ link.out.res = OkVoid

\* A connect answered with the handle of an earlier establishment.
C22_Witness ==
    /\ Connecting /\ link.pre = Handle(1) /\ link.out.res = Ok(Handle(1))
    /\ link.opened = 1 /\ link.n >= 2

\* C23: a connect or disconnect in which the driver failed to establish or to
\* release the connection returns a failure carrying the driver's error,
\* having made the failed driver call once.
C23_DriverFailureSurfaced ==
    link.out.failed # <<>> /\ link.out.failed[1] \in {ConnectError, CloseError} =>
        /\ ~link.out.threw
        /\ ~link.out.res.ok /\ link.out.res.error = link.out.failed[1]
        /\ link.out.connects + link.out.closes = 1

\* C24: no connect or disconnect leaves by exception.
C24_NoExceptionEscapes == ~link.out.threw

\* C25: getIndexes and getUniqueIndexes of a store whose engine lacks the
\* method return the failure "<method> is not implemented"; on an engine that
\* has it they return what the engine returned.
C25_OptionalCapabilities ==
    link.op \in {"getIndexes", "getUniqueIndexes"} =>
        /\ ~link.out.threw
        /\ link.implemented => link.out.res = link.engine
        /\ ~link.implemented =>
              /\ ~link.out.res.ok
              /\ link.out.res.error =
                    Err("string", {}, link.op \o " is not implemented")

\* getUniqueIndexes on an engine without the method.
C25_Witness ==
    /\ link.op = "getUniqueIndexes" /\ ~link.implemented
    /\ link.out.res = Fail(NotImplemented)

(***************************************************************************)
(* Properties of the reconciliation of CreateOrupdateByUniqueIndexes.      *)
(***************************************************************************)

\* The operation the k-th engine call of a call is due to be.
OpDue(k) ==
    IF k = 1 THEN "create" ELSE IF k = 2 THEN "getUniqueIndexes"
    ELSE IF k = 3 THEN "find" ELSE "update"

\* C26: the engine calls of one call are, in order, create, getUniqueIndexes,
\* find and then updates only, each of the first three at most once; a second
\* engine call is made only after create failed with code 11000, a further
\* one only after the one before it succeeded, and a call waits for exactly
\* the engine call that is due next.
C26_EngineCallsInOrder ==
    /\ \A k \in 1..Len(call.log) : call.log[k].op = OpDue(k)
    /\ Len(call.log) >= 2 =>
          ~call.log[1].ok /\ call.log[1].error.code = {DuplicateKeyCode}
    /\ \A k \in 2..Len(call.log) : k < Len(call.log) => call.log[k].ok
    /\ call.pc = "idle" <=> Len(call.log) = 0
    /\ call.pc = "uniqueIndexes" => Len(call.log) = 1
    /\ call.pc = "find" => Len(call.log) = 2
    /\ call.pc = "update" => Len(call.log) >= 3 /\ call.log[Len(call.log)].ok

\* A call that ended after create, getUniqueIndexes, find and two updates.
C26_Witness ==
    /\ Done /\ call.res.ok
    /\ Len(call.log) = 5
    /\ call.log[4].op = "update" /\ call.log[5].op = "update"

\* The found entities up to the i-th that differ from data.
Differing(i) == {j \in 1..i : call.found[j] # call.data}

\* What the i-th found entity contributes to the result: itself when it
\* equals data, and otherwise the entities returned by the update made for it.
Contribution(i) ==
    IF call.found[i] = call.data THEN <<call.found[i]>>
    ELSE call.updates[Cardinality(Differing(i))].res.data

RECURSIVE Contributions(_)
Contributions(i) == IF i = 0 THEN <<>> ELSE Contributions(i - 1) \o Contribution(i)

Reconciled == Done /\ call.res.ok /\ Issued("find")

\* C27: a reconciliation that ends in success has called update once for
\* every found entity that differs from data, each time with the filter find
\* was called with and with data as the patch, and none for an entity equal
\* to data; its result is the concatenation, in find order, of each equal
\* entity itself and of all the entities each update returned.
C27_ReconciliationLoop ==
    Reconciled =>
        /\ Len(call.updates) = Cardinality(Differing(Len(call.found)))
        /\ \A u \in 1..Len(call.updates) :
              /\ call.updates[u].queryFilter = [conditions |-> call.conditions]
              /\ call.updates[u].updateData = call.data
        /\ call.res.data = Contributions(Len(call.found))
        /\ Differing(Len(call.found)) = {} => writes = call.w0

\* Two found entities differ from data: two updates with the same arguments,
\* each returning both entities, which the result holds twice.
C27_Witness ==
    /\ Reconciled
    /\ Len(call.found) = 2 /\ Len(call.updates) = 2
    /\ call.updates[1].queryFilter = call.updates[2].queryFilter
    /\ Len(call.res.data) = 4
    /\ call.res.data[1] = call.res.data[3]

\* find was called, answered, and no update has changed the store since.
JustFound == Len(call.log) = 3 /\ call.log[3].ok /\ ~call.log[3].injected

\* The i-th stored entity has data's values in the fields of the k-th unique
\* index, data having them all.
CollidesOn(i, k) ==
    \A j \in 1..Len(uniqueKeys[k]) :
        /\ call.data[uniqueKeys[k][j]] # Undef
        /\ store[i][uniqueKeys[k][j]] = call.data[uniqueKeys[k][j]]

\* Two stored entities collide with data, each on a unique index of its own.
CollidesWithTwo ==
    /\ caps = "listed"
    /\ \E i, j \in 1..Len(store) : \E k, l \in 1..Len(uniqueKeys) :
          i # j /\ k # l /\ CollidesOn(i, k) /\ CollidesOn(j, l)

\* C28: when data collides with different stored entities on different
\* unique indexes, find returns every stored entity data collides with, so
\* more than one.
C28_FindReturnsEveryCollidingRow ==
    JustFound /\ CollidesWithTwo =>
        /\ Len(call.found) > 1
        /\ \A i \in 1..Len(store) :
              (\E k \in 1..Len(uniqueKeys) : CollidesOn(i, k))
                 => \E n \in 1..Len(call.found) : call.found[n] = store[i]

\* The unique-index fields the engine lists that data has a value in.
FieldsPresent ==
    SelectSeq(ReportedIndexes, LAMBDA f : call.data[f] # Undef)

\* getUniqueIndexes was called and answered with a list that is not empty.
IndexesListed ==
    /\ Len(call.log) >= 2
    /\ call.log[2].ok /\ ~call.log[2].injected
    /\ Len(ReportedIndexes) > 0

\* C29: the conditions built from a non-empty list of unique-index fields
\* are, in the order of the list, one condition of the single field f with
\* data's value for each listed f that data has, and none for the others;
\* when there is none at all the call is over and has failed, without find
\* or update.
C29_OneConditionPerPresentField ==
    IndexesListed =>
        /\ Len(FieldsPresent) > 0 =>
              /\ Len(call.conditions) = Len(FieldsPresent)
              /\ \A k \in 1..Len(FieldsPresent) :
                    call.conditions[k] =
                       <<[f |-> FieldsPresent[k], v |-> call.data[FieldsPresent[k]]]>>
        /\ Len(FieldsPresent) = 0 =>
              /\ Done /\ ~call.res.ok
              /\ Len(call.log) = 2
              /\ writes = call.w0

\* Of the two fields listed data has the second only.
C29_Witness ==
    /\ IndexesListed
    /\ Len(ReportedIndexes) = 2 /\ Len(FieldsPresent) = 1
    /\ call.conditions = <<Cond("b", "y")>>

\* The getUniqueIndexes calls of the current call.
IndexQueries == {k \in 1..Len(call.log) : call.log[k].op = "getUniqueIndexes"}

\* C30: a call whose create collided asks the engine for its unique indexes
\* once, is given the list the engine has at that moment and builds its
\* conditions from that list, whatever an earlier call was given; a call
\* whose create succeeded does not ask.
C30_IndexesQueriedAfresh ==
    /\ call.pc # "idle" /\ call.log[1].ok => IndexQueries = {}
    /\ Cardinality(IndexQueries) <= 1
    /\ Len(call.log) >= 2 =>
          /\ IndexQueries = {2}
          /\ call.log[2].ok => call.indexes = call.listed
          /\ call.log[2].ok /\ call.pc # "done" =>
                /\ Len(call.conditions) > 0
                /\ \A k \in 1..Len(call.conditions) :
                      \E n \in 1..Len(call.listed) :
                          call.conditions[k][1].f = call.listed[n]
                /\ \A n \in 1..Len(call.listed) :
                      call.data[call.listed[n]] # Undef =>
                          \E k \in 1..Len(call.conditions) :
                              call.conditions[k] =
                                 <<[f |-> call.listed[n], v |-> call.data[call.listed[n]]]>>

\* Two calls with the same data, the indexes having changed in between: the
\* second is given another list than the first and builds other conditions.
C30_Witness ==
    /\ prev.valid /\ prev.data = call.data
    /\ Len(prev.indexes) > 0 /\ Len(call.log) >= 3 /\ call.log[2].ok
    /\ call.indexes # prev.indexes
    /\ call.indexes = Flat(uniqueKeys)
    /\ call.conditions # prev.conditions

(***************************************************************************)
(* Properties of buildQuery, update and the projection of find.            *)
(***************************************************************************)

\* The filter compiled last has conditions alone.
ConditionsOnly ==
    /\ Compiled
    /\ lastQuery.filter.and = <<>> /\ lastQuery.filter.or = <<>>
    /\ lastQuery.filter.not = <<>>

\* The last condition of the list whose first own key is f.
LastNaming(conditions, f) ==
    CHOOSE k \in 1..Len(conditions) :
        /\ conditions[k][1].f = f
        /\ \A n \in (k + 1)..Len(conditions) : conditions[n][1].f # f

\* C31: a conditions list compiles to the fields that are the first own key
\* of one of its conditions, each with the value that key has in the last
\* condition naming it; the other keys of a condition appear nowhere.
C31_FirstKeyLastWins ==
    ConditionsOnly =>
        LET conditions == lastQuery.filter.conditions
            native == lastQuery.native
        IN /\ DOMAIN native = {conditions[k][1].f : k \in 1..Len(conditions)}
           /\ \A f \in DOMAIN native :
                 native[f] = conditions[LastNaming(conditions, f)][1].v

\* { a: 1 } followed by { a: 2, b: 2 } compiles to { a: 2 }.
C31_Witness ==
    /\ ConditionsOnly
    /\ Len(lastQuery.filter.conditions) = 2
    /\ Len(lastQuery.filter.conditions[2]) = 2
    /\ lastQuery.filter.conditions[2][2].f = "b"
    /\ lastQuery.native = [g \in {"a"} |-> V("2")]

\* The filter compiled last has an and part and neither or nor not.
AndOnly ==
    /\ Compiled
    /\ lastQuery.filter.and # <<>>
    /\ lastQuery.filter.or = <<>> /\ lastQuery.filter.not = <<>>

\* The and branches of the filter compiled last, each compiled on its own.
Branches ==
    [i \in 1..Len(lastQuery.filter.and) |-> buildQuery(lastQuery.filter.and[i])]

\* The last and branch that has the key g.
LastBranchWith(g) ==
    CHOOSE i \in 1..Len(Branches) :
        /\ g \in DOMAIN Branches[i]
        /\ \A n \in (i + 1)..Len(Branches) : g \notin DOMAIN Branches[n]

\* C32: the keys of a filter with an and part are those of its conditions
\* and of every compiled and branch; a key an and branch has carries the
\* value of the last branch having it, $or included, and the other keys
\* that of the conditions.
C32_AndBranchesOverwrite ==
    AndOnly =>
        LET base == BuildConditions(<<>>, lastQuery.filter.conditions)
            native == lastQuery.native
            branchKeys == UNION {DOMAIN Branches[i] : i \in 1..Len(Branches)}
        IN /\ DOMAIN native = (DOMAIN base) \cup branchKeys
           /\ \A g \in branchKeys : native[g] = Branches[LastBranchWith(g)][g]
           /\ \A g \in (DOMAIN base) \ branchKeys : native[g] = base[g]

\* Two and branches with a $or each, the first also with a field the
\* conditions set: the field is that of the branch, the $or that of the
\* second branch.
C32_Witness ==
    /\ AndOnly
    /\ Len(Branches) = 2
    /\ "$or" \in DOMAIN Branches[1] /\ "$or" \in DOMAIN Branches[2]
    /\ Branches[1]["$or"] # Branches[2]["$or"]
    /\ lastQuery.native["$or"] = Branches[2]["$or"]
    /\ lastQuery.filter.conditions = <<Cond("a", V("1"))>>
    /\ lastQuery.native["a"] = V("2")

\* The filter compiled last has no not part.
WithoutNot == Compiled /\ lastQuery.filter.not = <<>>

\* What the conditions and the and part of the filter compiled last give.
BeforeOr ==
    buildAnd(BuildConditions(<<>>, lastQuery.filter.conditions), lastQuery.filter.and)

\* C33: with an or part the compiled filter has a $or holding one compiled
\* filter per branch, in list order, each what the branch compiles to on
\* its own, and its other keys are those of the conditions and the and part
\* with their values; without an or part it is what the conditions and the
\* and part give, with no $or of its own.
C33_OrHoldsCompiledBranches ==
    WithoutNot =>
        LET or == lastQuery.filter.or
            native == lastQuery.native
        IN /\ or # <<>> =>
                 /\ DOMAIN native = (DOMAIN BeforeOr) \cup {"$or"}
                 /\ native["$or"].ne = 0
                 /\ Len(native["$or"].alts) = Len(or)
                 /\ \A i \in 1..Len(or) :
                       /\ native["$or"].alts[i] = buildQuery(or[i])
                       /\ (or[i].and = <<>> /\ or[i].or = <<>> /\ or[i].not = <<>>) =>
                             native["$or"].alts[i]
                                = BuildConditions(<<>>, or[i].conditions)
                 /\ \A g \in (DOMAIN BeforeOr) \ {"$or"} : native[g] = BeforeOr[g]
           /\ or = <<>> =>
                 /\ native = BeforeOr
                 /\ lastQuery.filter.and = <<>> => "$or" \notin DOMAIN native

\* An or of { a: 1 } and { b: 2 } on a filter with no conditions: the result
\* has the $or and neither a nor b.
C33_Witness ==
    /\ WithoutNot
    /\ lastQuery.filter.conditions = <<>> /\ lastQuery.filter.and = <<>>
    /\ Len(lastQuery.filter.or) = 2
    /\ DOMAIN lastQuery.native = {"$or"}
    /\ lastQuery.native["$or"].alts
          = <<[g \in {"a"} |-> V("1")], [g \in {"b"} |-> V("2")]>>

\* The last operation was an update the engine did not fail on its own
\* account.
Updated == lastQuery.op = "update" /\ lastQuery.res.error # ErrObject

\* The positions of the documents that matched the filter of the update.
MatchedBefore ==
    {i \in 1..Len(lastQuery.before) :
        \A g \in DOMAIN lastQuery.native : lastQuery.before[i][g] = lastQuery.native[g]}

\* The document with the fields of the patch where the patch has them.
Patched(doc) ==
    [f \in DOMAIN doc |->
        IF lastQuery.updateData[f] # Undef THEN lastQuery.updateData[f] ELSE doc[f]]

\* The i-th of the positions, in ascending order.
RECURSIVE Nth(_, _)
Nth(positions, i) ==
    LET least == CHOOSE p \in positions : \A q \in positions : p <= q
    IN IF i = 1 THEN least ELSE Nth(positions \ {least}, i - 1)

Listed(key) ==
    UNION { {lastQuery.filter.fields[k].names[n] :
                n \in 1..Len(lastQuery.filter.fields[k].names)} :
            k \in {j \in 1..Len(lastQuery.filter.fields) :
                      lastQuery.filter.fields[j].key = key} }

\* C35: a find with fields.include hands the query a projection of exactly
\* the fields named there, and the entities returned have those fields of
\* theirs and no others.
C35_ProjectionOfIncluded ==
    (Found /\ Listed("include") # {}) =>
        /\ {lastQuery.builder.select[k] : k \in 1..Len(lastQuery.builder.select)}
              = Listed("include")
        /\ \A i \in 1..Len(lastQuery.res.data) :
              DOMAIN lastQuery.res.data[i] = Listed("include")

\* C36: a call that returns success returns at least one entity, and the
\* store then holds an entity with data's value in every field data has.
C36_SuccessMeansStored ==
    (Done /\ call.res.ok /\ Clean) =>
        /\ Len(call.res.data) > 0
        /\ \E i \in 1..Len(store) : AgreesWith(store[i], call.data)

\* The two calls in flight have both returned and were given the same data.
BothReturned == call.pc = "done" /\ other.pc = "done" /\ call.data = other.data

CreateSucceeded(c) == c.log[1].ok

UpdateIssuedBy(c) == \E k \in 1..Len(c.log) : c.log[k].op = "update"

\* C37: two calls with the same data, interleaved at their awaits on an
\* engine that lists its unique indexes, both return success; the create of
\* exactly one of them succeeds, neither issues an update, and the store
\* ends with one entity, equal to data.
C37_RacingCallsStoreOnce ==
    (BothReturned /\ caps = "listed" /\ HasIdentity(call.data)) =>
        /\ call.res.ok /\ other.res.ok
        /\ CreateSucceeded(call) # CreateSucceeded(other)
        /\ ~UpdateIssuedBy(call) /\ ~UpdateIssuedBy(other)
        /\ store = <<call.data>>

\* Both creates were pending at once: the call whose create was rejected had
\* started before anything was written, and it went on to find the entity.
C37_Witness ==
    /\ BothReturned /\ caps = "listed" /\ HasIdentity(call.data)
    /\ \E c \in {call, other} :
          /\ ~CreateSucceeded(c)
          /\ c.w0 = 0
          /\ \E k \in 1..Len(c.log) : c.log[k].op = "find"
          /\ c.res.ok

\* C38: the store holds a connection handle exactly when its Database holds
\* one, and a connect that did not return success leaves the store without a
\* handle.
C38_StoreAndDatabaseAgree ==
    /\ (link.conn # NoHandle) <=> (link.dbConn # NoHandle)
    /\ Connecting /\ (link.out.threw \/ ~link.out.res.ok) => link.conn = NoHandle

\* The positions of the child lists: <<p, k>> is the k-th child of p.
Edges == UNION {{<<p, k>> : k \in 1..Len(children[p])} : p \in Containers}

ParentEdges(c) == {e \in Edges : children[e[1]][e[2]] = c}

\* The containers a depth-first walk from c comes to, in order, cut off below
\* depth d.
RECURSIVE WalkTo(_, _, _), WalkAll(_, _, _)
WalkTo(ch, c, d) ==
    IF d = 0 THEN <<c>> ELSE <<c>> \o WalkAll(ch, ch[c], d - 1)
WalkAll(ch, cs, d) ==
    IF cs = <<>> THEN <<>>
    ELSE WalkTo(ch, Head(cs), d) \o WalkAll(ch, Tail(cs), d)

NoRepeat(w) == \A i, j \in 1..Len(w) : w[i] = w[j] => i = j

\* C39: the containers form a tree under the root: no container is in more
\* than one position of the child lists, the root is in none, a container
\* just created is in exactly one, that of its creator; no container is below
\* itself, and the depth-first walk of resolve and destroy from any container
\* comes to each container at most once.
C39_HierarchyIsATree ==
    /\ \A c \in Containers : Cardinality(ParentEdges(c)) <= 1
    /\ ParentEdges(1) = {}
    /\ last.op = "createChildContainer" =>
          /\ Cardinality(ParentEdges(Len(instances))) = 1
          /\ \A e \in ParentEdges(Len(instances)) : e[1] = last.c
    /\ \A c \in Containers :
          LET below == WalkAll(children, children[c], Len(children))
          IN \A i \in 1..Len(below) : below[i] # c
    /\ \A c \in Containers :
          /\ NoRepeat(WalkTo(children, c, Len(children)))
          /\ Len(WalkTo(children, c, Len(children))) <= Len(children)

\* The root with two children, the first of them with a child of its own.
C39_Witness ==
    /\ last.op = "createChildContainer"
    /\ children = Hierarchy
    /\ WalkTo(children, 1, Len(children)) = <<1, 2, 3, 4>>

====
